---- MODULE Spec2Model ----
(***************************************************************************)
(* Model of the resilient execution engine of the bundler bot:             *)
(* RetryConfig, CircuitBreaker, ErrorHandler and RetryManager of           *)
(* src/utils/logger.js (the errorHandler part, lines 348-704), and the     *)
(* GasOptimizer of the same file (lines 256-344).                          *)
(*                                                                         *)
(* One RetryManager instance (one CircuitBreaker) is shared by the logical *)
(* tasks of Tasks.  Every action is one synchronous run of JavaScript code *)
(* between two suspension points (an await of the operation, of            *)
(* handleError, or of sleep), so actions of different tasks interleave     *)
(* exactly where the single-threaded runtime lets them.  Time is the       *)
(* variable now, read where the code reads Date.now().                     *)
(*                                                                         *)
(* Spec and FairSpec run the retry engine of a TransactionRetryManager;    *)
(* LooseSpec and KindsSpec run it with other maxRetries values and other   *)
(* errors; PolicySpec, ClassifySpec and GasSpec run the retry policy, the  *)
(* classifier and the gas estimator on their own.  ListSpec runs the       *)
(* engine with other retryableErrors lists in its RetryConfig.             *)
(* MonitorSpec runs the TransactionMonitor (lines 151-254) and ReportSpec  *)
(* runs it up to a generateReport call, LoggerSpec runs the Logger (lines  *)
(* 10-149), and BundleSpec one executeBundle call of the bot               *)
(* (src/unnamed/part_000, lines 308-432) on top of the retry engine.       *)
(***************************************************************************)
EXTENDS Integers, Sequences, FiniteSets, TLC

----------------------------------------------------------------------------
(* Bounds of the model *)

\* last instant the clock distinguishes; at MaxTime the clock saturates
MaxTime == 3
\* number of calls made to the RetryManager in one run (executeWithRetry,
\* executeWithCircuitBreaker, resetCircuitBreaker)
MaxCalls == 2
\* largest maxRetries option handed to the RetryConfig constructor
MaxRetriesOpt == 3
\* largest failureThreshold option handed to the CircuitBreaker constructor
MaxThresholdOpt == 2
\* recoveryTimeout and monitoringPeriod options, in clock units
RecoveryTimeoutOpt == 2
MonitoringPeriodOpt == 1

\* largest attempt number handed to calculateDelay on its own
MaxAttemptNo == 6

\* largest number of the classifier's substrings one message holds
MaxSubstrings == 2

\* number of estimateOptimalGasPrice calls made in one run
MaxEstimates == 3

\* number of TransactionMonitor calls made in one run
MaxMonitorCalls == 2
\* number of startMonitoring calls in a run that ends with a report
MaxReportCalls == 7
\* number of Logger.log calls made in one run
MaxLogCalls == 2

Tasks == {1, 2}

----------------------------------------------------------------------------
(* Errors and their classification *)

\* An error is [code, msg]: msg is the set of the classifier's substrings that
\* the lower-cased message contains ({} for a missing or empty message), code
\* is the error's code property ("none" when it has none).
NoCode == "none"

ErrTimeout == [code |-> NoCode, msg |-> {"timeout"}]
ErrFunds == [code |-> NoCode, msg |-> {"insufficient funds"}]

\* the errors the operations of the main specification raise
SampleErrors == {ErrTimeout, ErrFunds}

\* The numeric codes of the model are written as their decimal strings; every
\* other code (a tag such as "TIMEOUT", or none) converts to NaN in the
\* relational comparison `code >= 500`, which is then false.
NumericCodes == {"404", "500", "503"}
ToNumber(code) ==
    CASE code = "404" -> 404
      [] code = "500" -> 500
      [] code = "503" -> 503

CodeAtLeast500(code) == code \in NumericCodes /\ ToNumber(code) >= 500

\* faulty variant: the gas price test comes before the nonce test
classifyErrorGasPriceFirst(error) ==
    LET message == error.msg
        code == error.code
        has(s) == s \in message
    IN  IF code = "NETWORK_ERROR" \/ has("network") \/ has("connection")
            THEN "NETWORK_ERROR"
        ELSE IF code = "TIMEOUT" \/ has("timeout")
            THEN "TIMEOUT"
        ELSE IF code = "RATE_LIMITED" \/ has("rate limit") \/ has("too many requests")
            THEN "RATE_LIMITED"
        ELSE IF CodeAtLeast500(code) \/ has("server error") \/ has("internal error")
            THEN "SERVER_ERROR"
        ELSE IF has("gas estimation") \/ has("cannot estimate gas")
            THEN "GAS_ESTIMATION_FAILED"
        ELSE IF has("insufficient funds") \/ has("insufficient balance")
            THEN "INSUFFICIENT_FUNDS"
        ELSE IF has("revert") \/ has("execution reverted")
            THEN "TRANSACTION_REVERTED"
        ELSE IF has("gas price too low") \/ has("gas price")
            THEN "GAS_PRICE_TOO_LOW"
        ELSE IF has("nonce too low") \/ has("nonce")
            THEN "NONCE_TOO_LOW"
        ELSE IF has("contract") \/ has("call exception")
            THEN "CONTRACT_ERROR"
        ELSE IF has("invalid") \/ has("validation")
            THEN "VALIDATION_ERROR"
        ELSE "UNKNOWN_ERROR"

classifyError(error) ==
    LET message == error.msg
        code == error.code
        has(s) == s \in message
    IN  IF code = "NETWORK_ERROR" \/ has("network") \/ has("connection")
            THEN "NETWORK_ERROR"
        ELSE IF code = "TIMEOUT" \/ has("timeout")
            THEN "TIMEOUT"
        ELSE IF code = "RATE_LIMITED" \/ has("rate limit") \/ has("too many requests")
            THEN "RATE_LIMITED"
        ELSE IF CodeAtLeast500(code) \/ has("server error") \/ has("internal error")
            THEN "SERVER_ERROR"
        ELSE IF has("gas estimation") \/ has("cannot estimate gas")
            THEN "GAS_ESTIMATION_FAILED"
        ELSE IF has("insufficient funds") \/ has("insufficient balance")
            THEN "INSUFFICIENT_FUNDS"
        ELSE IF has("revert") \/ has("execution reverted")
            THEN "TRANSACTION_REVERTED"
        ELSE IF has("nonce too low") \/ has("nonce")
            THEN "NONCE_TOO_LOW"
        ELSE IF has("gas price too low") \/ has("gas price")
            THEN "GAS_PRICE_TOO_LOW"
        ELSE IF has("contract") \/ has("call exception")
            THEN "CONTRACT_ERROR"
        ELSE IF has("invalid") \/ has("validation")
            THEN "VALIDATION_ERROR"
        ELSE "UNKNOWN_ERROR"

\* the kinds of ErrorHandler.errorTypes, and the kind classifyError falls back to
ErrorTypes ==
    {"NETWORK_ERROR", "TIMEOUT", "RATE_LIMITED", "SERVER_ERROR",
     "GAS_ESTIMATION_FAILED", "INSUFFICIENT_FUNDS", "TRANSACTION_REVERTED",
     "NONCE_TOO_LOW", "GAS_PRICE_TOO_LOW", "CONTRACT_ERROR", "VALIDATION_ERROR",
     "CONFIGURATION_ERROR", "UNKNOWN_ERROR"}

retryableTypes ==
    {"NETWORK_ERROR", "TIMEOUT", "RATE_LIMITED", "SERVER_ERROR",
     "GAS_ESTIMATION_FAILED", "NONCE_TOO_LOW", "GAS_PRICE_TOO_LOW"}

\* retryConfig.retryableErrors of the manager
VARIABLE retryableErrors

\* the default of RetryConfig.retryableErrors (lines 362-368)
DefaultRetryableErrors ==
    {"NETWORK_ERROR", "TIMEOUT", "RATE_LIMITED", "SERVER_ERROR", "GAS_ESTIMATION_FAILED"}

\* faulty variant: insufficient funds taken for a transient kind
isRetryableWithFunds(errorType) ==
    errorType \in retryableTypes \cup {"INSUFFICIENT_FUNDS"}

\* faulty variant: the list of RetryConfig.retryableErrors, which lacks the
\* nonce and gas price kinds, taken for the handler's
isRetryableByConfigList(errorType) ==
    errorType \in {"NETWORK_ERROR", "TIMEOUT", "RATE_LIMITED", "SERVER_ERROR",
                   "GAS_ESTIMATION_FAILED"}

\* faulty variant: the kind is looked up in the configured list
isRetryableByConfigured(errorType) == errorType \in retryableErrors

isRetryable(errorType) == errorType \in retryableTypes

\* handleError: the part of its result executeWithRetry reads
handleError(error) ==
    LET errorType == classifyError(error)
    IN  [errorType |-> errorType, isRetryable |-> isRetryable(errorType)]

----------------------------------------------------------------------------
(* RetryConfig *)

\* `options.x || d`: a missing or zero option takes the default
OrDefault(opt, d) == IF opt = 0 THEN d ELSE opt

\* the delay policy of the engine's RetryConfig, in clock units; the
\* exponential base is the fraction exponentialBase / exponentialBaseDen and
\* jitter the fraction jitterNum / jitterDen
retryConfig ==
    [baseDelay |-> 1, maxDelay |-> 2, exponentialBase |-> 2, exponentialBaseDen |-> 1,
     jitterNum |-> 1, jitterDen |-> 2]

\* the values Math.random() takes in the model: r / RandomDen for r in RandomNums
RandomDen == 2
RandomNums == 0 .. (RandomDen - 1)

RECURSIVE Pow(_, _)
Pow(b, e) == IF e <= 0 THEN 1 ELSE b * Pow(b, e - 1)

Min(a, b) == IF a <= b THEN a ELSE b

\* `Math.min(exponentialDelay, this.maxDelay)` as the fraction num / den, the
\* exponential delay being baseDelay * exponentialBase^(attempt-1)
cappedDelay(c, attempt) ==
    LET expNum == c.baseDelay * Pow(c.exponentialBase, attempt - 1)
        expDen == Pow(c.exponentialBaseDen, attempt - 1)
    IN  IF expNum <= c.maxDelay * expDen
            THEN [num |-> expNum, den |-> expDen]
            ELSE [num |-> c.maxDelay, den |-> 1]

\* faulty variant: the jitter is taken off the delay
calculateDelayMinusJitter(c, attempt, r) ==
    LET delay == cappedDelay(c, attempt)
    IN  (delay.num * ((c.jitterDen * RandomDen) - (c.jitterNum * r)))
            \div (delay.den * c.jitterDen * RandomDen)

\* calculateDelay(attempt) with Math.random() = r / RandomDen:
\* Math.floor(delay + delay * jitter * random)
calculateDelay(c, attempt, r) ==
    LET delay == cappedDelay(c, attempt)
    IN  (delay.num * ((c.jitterDen * RandomDen) + (c.jitterNum * r)))
            \div (delay.den * c.jitterDen * RandomDen)

\* An options object of the policy constructors.  A number is an integer or,
\* for exponentialBase and jitter, a fraction; a property that is missing
\* (or 0: `||` cannot tell them apart) has numerator 0.
NoOptions ==
    [maxRetries |-> 0, baseDelay |-> 0, maxDelay |-> 0,
     exponentialBase |-> 0, exponentialBaseDen |-> 1, jitterNum |-> 0, jitterDen |-> 1]

\* the options the policy constructors are tried with
PolicyOptions ==
    [maxRetries : {0, 0 - 1, 2},
     baseDelay : {0, 0 - 1000, 1, 8000},
     maxDelay : {0, 0 - 1, 3, 30000},
     exponentialBase : {0, 0 - 2, 1, 3}, exponentialBaseDen : {2},
     jitterNum : {0, 0 - 1, 1, 3}, jitterDen : {2}]

\* `options.x || n / d` for a fraction-valued option
FracOrDefault(num, den, n, d) ==
    IF num = 0 THEN [num |-> n, den |-> d] ELSE [num |-> num, den |-> den]

\* new RetryConfig(options)
NewRetryConfig(o) ==
    LET base == FracOrDefault(o.exponentialBase, o.exponentialBaseDen, 2, 1)
        jitter == FracOrDefault(o.jitterNum, o.jitterDen, 1, 10)
    IN  [class |-> "RetryConfig",
         maxRetries |-> OrDefault(o.maxRetries, 3),
         baseDelay |-> OrDefault(o.baseDelay, 1000),
         maxDelay |-> OrDefault(o.maxDelay, 30000),
         exponentialBase |-> base.num, exponentialBaseDen |-> base.den,
         jitterNum |-> jitter.num, jitterDen |-> jitter.den]

\* the `retry` options TransactionRetryManager's constructor hands on
TxRetryOptions(config) ==
    LET base == FracOrDefault(config.exponentialBase, config.exponentialBaseDen, 2, 1)
        jitter == FracOrDefault(config.jitterNum, config.jitterDen, 1, 5)
    IN  [maxRetries |-> OrDefault(config.maxRetries, 5),
         baseDelay |-> OrDefault(config.baseDelay, 2000),
         maxDelay |-> OrDefault(config.maxDelay, 60000),
         exponentialBase |-> base.num, exponentialBaseDen |-> base.den,
         jitterNum |-> jitter.num, jitterDen |-> jitter.den]

\* no policy constructed yet, no delay computed yet
NoPolicy == [class |-> "none"]
NoDelayCall == [attempt |-> 0, r |-> 0, delay |-> 0]

----------------------------------------------------------------------------
(* CircuitBreaker *)

\* lastFailureTime before the first failure (null in the source)
Null == 0 - 1

\* TransactionRetryManager's constructor: `config.x || default`
TxMaxRetries(opt) == OrDefault(opt, 5)
TxFailureThreshold(opt) == OrDefault(opt, 3)

recoveryTimeout == RecoveryTimeoutOpt
monitoringPeriod == MonitoringPeriodOpt

VARIABLES
    maxRetries,        \* retryConfig.maxRetries, or its integer part
    maxRetriesHalf,    \* 1 when retryConfig.maxRetries is maxRetries + 1/2, else 0
    failureThreshold,  \* circuitBreaker.failureThreshold
    errs,              \* the errors the operations of this run raise
    now,               \* the clock Date.now() reads
    cb,                \* the CircuitBreaker: state, failureCount, lastFailureTime, failures
    task,              \* per task: the position and locals of its current call
    calls,             \* calls made to the RetryManager so far
    lastOp,            \* history: the last CircuitBreaker method run, the state it found, its result
    options,           \* the options object handed to a retry policy constructor
    policy,            \* the RetryConfig that constructor made
    delayCall,         \* the last calculateDelay call: attempt, random draw, result
    clsIn,             \* the value handed to ErrorHandler.classifyError
    clsOut,            \* what classifyError did with it
    networkConfig,     \* config.getNetworkConfig(): gasMultiplier, minGasPrice, maxGasPrice
    gasHistory,        \* GasOptimizer.gasHistory
    gasPending,        \* estimateOptimalGasPrice calls awaiting provider.getFeeData()
    gasObserved,       \* history: every entry ever appended, in order
    gasLast,           \* the estimateOptimalGasPrice call that settled last: how it ended and
                       \* what it returned; history: the calls that returned or failed so far
    pendingTransactions,    \* TransactionMonitor.pendingTransactions
    completedTransactions,  \* TransactionMonitor.completedTransactions
    failedTransactions,     \* TransactionMonitor.failedTransactions
    metrics,           \* TransactionMonitor.metrics
    started,           \* history: the hashes startMonitoring has been called with
    monitorOp,         \* history: the TransactionMonitor call made last, and the hash's record before it
    completedKeys,     \* the keys of completedTransactions in the Map's iteration order
    failedKeys,        \* the keys of failedTransactions in the Map's iteration order
    report,            \* what generateReport() returned
    logConfig,         \* config.monitoring as the Logger reads it, and Logger.currentLevel
    logCall,           \* the Logger.log call in progress: its arguments and position
    consoleErrors,     \* what the Logger has reported with console.error
    globals,           \* the identifiers bound on the global object of the bot's module
    bundle             \* OptimizedBundlerBot.executeBundle: the operation's locals and what it has
                       \* asked of the provider, the wallet and the relay

\* the variables of the retry engine, of the policy constructor, of the
\* classifier and of the gas estimator
retryVars ==
    <<maxRetries, maxRetriesHalf, failureThreshold, errs, now, cb, task, calls, lastOp>>
policyVars == <<options, policy, delayCall, retryableErrors>>
classifyVars == <<clsIn, clsOut>>
gasVars == <<networkConfig, gasHistory, gasPending, gasObserved, gasLast>>
monitorVars ==
    <<pendingTransactions, completedTransactions, failedTransactions, metrics, started,
      monitorOp, completedKeys, failedKeys, report>>
loggerVars == <<logConfig, logCall, consoleErrors>>
bundleVars == <<globals, bundle>>

\* what no step of the retry engine changes
retryFixed ==
    <<maxRetries, maxRetriesHalf, failureThreshold, errs, policyVars, classifyVars, gasVars,
      monitorVars, loggerVars, bundleVars>>

vars ==
    <<retryVars, policyVars, classifyVars, gasVars, monitorVars, loggerVars, bundleVars>>

\* the constructor's initial fields; failures holds the timestamps of the
\* window's entries (the message text stored beside each is never read)
NewCircuitBreaker ==
    [state |-> "CLOSED", failureCount |-> 0, lastFailureTime |-> Null, failures |-> <<>>]

\* faulty variant: the recovery comparison is strict, so the breaker still refuses
\* at the instant recoveryTimeout has elapsed
canExecuteLate(b, t) ==
    CASE b.state = "CLOSED" -> [ret |-> TRUE, cb |-> b]
      [] b.state = "OPEN" ->
            IF b.lastFailureTime = Null \/ t - b.lastFailureTime > recoveryTimeout
                THEN [ret |-> TRUE, cb |-> [b EXCEPT !.state = "HALF_OPEN"]]
                ELSE [ret |-> FALSE, cb |-> b]
      [] b.state = "HALF_OPEN" -> [ret |-> TRUE, cb |-> b]
      [] OTHER -> [ret |-> FALSE, cb |-> b]

\* faulty variant: recovery closes the breaker at once instead of going HALF_OPEN
canExecuteCloses(b, t) ==
    CASE b.state = "CLOSED" -> [ret |-> TRUE, cb |-> b]
      [] b.state = "OPEN" ->
            IF b.lastFailureTime = Null \/ t - b.lastFailureTime >= recoveryTimeout
                THEN [ret |-> TRUE, cb |-> [b EXCEPT !.state = "CLOSED"]]
                ELSE [ret |-> FALSE, cb |-> b]
      [] b.state = "HALF_OPEN" -> [ret |-> TRUE, cb |-> b]
      [] OTHER -> [ret |-> FALSE, cb |-> b]

\* faulty variant: the transition to HALF_OPEN also clears failureCount
canExecuteClearsCount(b, t) ==
    CASE b.state = "CLOSED" -> [ret |-> TRUE, cb |-> b]
      [] b.state = "OPEN" ->
            IF b.lastFailureTime = Null \/ t - b.lastFailureTime >= recoveryTimeout
                THEN [ret |-> TRUE,
                      cb |-> [b EXCEPT !.state = "HALF_OPEN", !.failureCount = 0]]
                ELSE [ret |-> FALSE, cb |-> b]
      [] b.state = "HALF_OPEN" -> [ret |-> TRUE, cb |-> b]
      [] OTHER -> [ret |-> FALSE, cb |-> b]

\* faulty variant: a refused call is recorded as one more failure
canExecuteCountsRejection(b, t) ==
    CASE b.state = "CLOSED" -> [ret |-> TRUE, cb |-> b]
      [] b.state = "OPEN" ->
            IF b.lastFailureTime = Null \/ t - b.lastFailureTime >= recoveryTimeout
                THEN [ret |-> TRUE, cb |-> [b EXCEPT !.state = "HALF_OPEN"]]
                ELSE [ret |-> FALSE, cb |-> [b EXCEPT !.lastFailureTime = t]]
      [] b.state = "HALF_OPEN" -> [ret |-> TRUE, cb |-> b]
      [] OTHER -> [ret |-> FALSE, cb |-> b]

\* canExecute(): [ret |-> the returned boolean, cb |-> the breaker afterwards]
canExecute(b, t) ==
    CASE b.state = "CLOSED" -> [ret |-> TRUE, cb |-> b]
      [] b.state = "OPEN" ->
            \* now - null is now - 0, the whole epoch time: past any timeout
            IF b.lastFailureTime = Null \/ t - b.lastFailureTime >= recoveryTimeout
                THEN [ret |-> TRUE, cb |-> [b EXCEPT !.state = "HALF_OPEN"]]
                ELSE [ret |-> FALSE, cb |-> b]
      [] b.state = "HALF_OPEN" -> [ret |-> TRUE, cb |-> b]
      [] OTHER -> [ret |-> FALSE, cb |-> b]

\* faulty variant: onSuccess forgets to clear failureCount
onSuccessKeepsCount(b) ==
    [b EXCEPT !.state = "CLOSED", !.failures = <<>>]

onSuccess(b) ==
    [b EXCEPT !.failureCount = 0, !.state = "CLOSED", !.failures = <<>>]

\* faulty variant: the breaker opens only past the threshold (> for >=)
onFailureStrict(b, t) ==
    LET cutoff == t - monitoringPeriod
        pushed == Append(b.failures, t)
        count == b.failureCount + 1
    IN  [state |-> IF count > failureThreshold THEN "OPEN" ELSE b.state,
         failureCount |-> count,
         lastFailureTime |-> t,
         failures |-> SelectSeq(pushed, LAMBDA ts : ts > cutoff)]

\* faulty variant: a failed trial leaves the breaker HALF_OPEN
onFailureIgnoresTrial(b, t) ==
    LET cutoff == t - monitoringPeriod
        pushed == Append(b.failures, t)
        count == b.failureCount + 1
    IN  [state |-> IF count >= failureThreshold /\ b.state # "HALF_OPEN"
                       THEN "OPEN" ELSE b.state,
         failureCount |-> count,
         lastFailureTime |-> t,
         failures |-> SelectSeq(pushed, LAMBDA ts : ts > cutoff)]

\* faulty variant: lastFailureTime is recorded only by the failure that opens
\* the breaker
onFailureStampsOnOpening(b, t) ==
    LET cutoff == t - monitoringPeriod
        pushed == Append(b.failures, t)
        count == b.failureCount + 1
        opens == count >= failureThreshold /\ b.state # "OPEN"
    IN  [state |-> IF count >= failureThreshold THEN "OPEN" ELSE b.state,
         failureCount |-> count,
         lastFailureTime |-> IF opens THEN t ELSE b.lastFailureTime,
         failures |-> SelectSeq(pushed, LAMBDA ts : ts > cutoff)]

onFailure(b, t) ==
    LET cutoff == t - monitoringPeriod
        pushed == Append(b.failures, t)
        count == b.failureCount + 1
    IN  [state |-> IF count >= failureThreshold THEN "OPEN" ELSE b.state,
         failureCount |-> count,
         lastFailureTime |-> t,
         failures |-> SelectSeq(pushed, LAMBDA ts : ts > cutoff)]

\* faulty variant: the reset closes the breaker and keeps failureCount
resetBreakerKeepsCount(b) ==
    [b EXCEPT !.state = "CLOSED", !.failures = <<>>]

\* RetryManager.resetCircuitBreaker's effect on the breaker
resetBreaker(b) ==
    [b EXCEPT !.failureCount = 0, !.state = "CLOSED", !.failures = <<>>]

----------------------------------------------------------------------------
(* RetryManager *)

\* A thrown value: origin says who made it ("operation": raised by the
\* operation's invocation number inv of the call; "gate": the Error
\* executeWithRetry / executeWithCircuitBreaker make when canExecute() is
\* false; "undefined": no error object at all).
OperationError(e, n) == [origin |-> "operation", err |-> e, inv |-> n]
CircuitOpenError == [origin |-> "gate", err |-> [code |-> NoCode, msg |-> {}], inv |-> 0]
Undefined == [origin |-> "undefined", err |-> [code |-> NoCode, msg |-> {}], inv |-> 0]

\* the locals of a call that has just been entered
NewCall(kind) ==
    [pc |-> "idle", kind |-> kind, attempt |-> 0, invocations |-> 0, waits |-> 0,
     gateChecks |-> 0, lastError |-> Undefined, thrown |-> Undefined, wakeAt |-> 0]

Active == {"running", "handling", "sleeping"}

\* history of the breaker's method calls: the method run last, the state and
\* failureCount it found, what it returned, and streak, the number of
\* onFailure calls made since the breaker was last constructed or reset by
\* onSuccess or resetCircuitBreaker
Op(name, b, ret) ==
    [op |-> name, pre |-> b.state, preCount |-> b.failureCount, ret |-> ret,
     streak |-> CASE name = "onFailure" -> lastOp.streak + 1
                  [] name \in {"onSuccess", "resetCircuitBreaker"} -> 0
                  [] OTHER -> lastOp.streak]

\* faulty variant: the loop header compares with < for <=
EnterAttemptOffByOne(c, attempt) ==
    IF attempt < maxRetries
        THEN [c EXCEPT !.pc = "running", !.attempt = attempt,
                       !.invocations = c.invocations + 1]
        ELSE [c EXCEPT !.pc = "thrown", !.attempt = attempt, !.thrown = c.lastError]

\* faulty variant: the loop counts attempts from 0, so that it runs one time too many
EnterAttemptFromZero(c, attempt) ==
    IF attempt - 1 <= maxRetries
        THEN [c EXCEPT !.pc = "running", !.attempt = attempt - 1,
                       !.invocations = c.invocations + 1]
        ELSE [c EXCEPT !.pc = "thrown", !.attempt = attempt - 1, !.thrown = c.lastError]

\* faulty variant: leaving the loop throws an error of the manager's own making
EnterAttemptThenGiveUp(c, attempt) ==
    IF attempt <= maxRetries
        THEN [c EXCEPT !.pc = "running", !.attempt = attempt,
                       !.invocations = c.invocations + 1]
        ELSE [c EXCEPT !.pc = "thrown", !.attempt = attempt, !.thrown = CircuitOpenError]

\* the loop header `attempt <= maxRetries` followed by `await operation()`,
\* or, when the loop is left, the trailing `throw lastError`
EnterAttempt(c, attempt) ==
    IF attempt <= maxRetries
        THEN [c EXCEPT !.pc = "running", !.attempt = attempt,
                       !.invocations = c.invocations + 1]
        ELSE [c EXCEPT !.pc = "thrown", !.attempt = attempt, !.thrown = c.lastError]

\* executeWithRetry, from its entry to the first await (lines 571-582)
ExecuteWithRetry(t) ==
    /\ task[t].pc \notin Active
    /\ calls < MaxCalls
    /\ calls' = calls + 1
    /\ LET g == canExecute(cb, now)
           c == [NewCall("retry") EXCEPT !.gateChecks = 1]
       IN  /\ cb' = g.cb
           /\ lastOp' = Op("canExecute", cb, g.ret)
           /\ task' = [task EXCEPT ![t] =
                   IF ~g.ret
                       THEN [c EXCEPT !.pc = "thrown", !.thrown = CircuitOpenError]
                       ELSE EnterAttempt(c, 1)]
    /\ UNCHANGED <<retryFixed, now>>

\* executeWithCircuitBreaker, from its entry to its await (lines 629-636)
ExecuteWithCircuitBreaker(t) ==
    /\ task[t].pc \notin Active
    /\ calls < MaxCalls
    /\ calls' = calls + 1
    /\ LET g == canExecute(cb, now)
           c == [NewCall("breaker") EXCEPT !.gateChecks = 1]
       IN  /\ cb' = g.cb
           /\ lastOp' = Op("canExecute", cb, g.ret)
           /\ task' = [task EXCEPT ![t] =
                   IF ~g.ret
                       THEN [c EXCEPT !.pc = "thrown", !.thrown = CircuitOpenError]
                       ELSE [c EXCEPT !.pc = "running", !.attempt = 1, !.invocations = 1]]
    /\ UNCHANGED <<retryFixed, now>>

\* the awaited operation resolves: onSuccess() and return (lines 582-588, 636-638)
OperationSucceeds(t) ==
    /\ task[t].pc = "running"
    /\ cb' = onSuccess(cb)
    /\ lastOp' = Op("onSuccess", cb, TRUE)
    /\ task' = [task EXCEPT ![t].pc = "returned"]
    /\ UNCHANGED <<retryFixed, now, calls>>

\* the awaited operation rejects inside executeWithRetry: the catch block up
\* to `await this.errorHandler.handleError(...)` (lines 590-597)
OperationFails(t, e) ==
    /\ task[t].pc = "running"
    /\ task[t].kind = "retry"
    /\ task' = [task EXCEPT ![t].pc = "handling",
                            ![t].lastError = OperationError(e, task[t].invocations)]
    /\ UNCHANGED <<retryFixed, now, cb, calls, lastOp>>

\* the rest of the catch block, after handleError resolved, up to
\* `await this.sleep(delay)` (lines 599-622); r is the Math.random() draw
AfterHandleError(t, r) ==
    /\ task[t].pc = "handling"
    /\ cb' = onFailure(cb, now)
    /\ lastOp' = Op("onFailure", cb, TRUE)
    /\ LET c == task[t]
           errorAnalysis == handleError(c.lastError.err)
       IN  task' = [task EXCEPT ![t] =
               IF ~errorAnalysis.isRetryable
                   THEN [c EXCEPT !.pc = "thrown", !.thrown = c.lastError]
               ELSE IF maxRetriesHalf = 0 /\ c.attempt = maxRetries
                   THEN [c EXCEPT !.pc = "thrown", !.thrown = c.lastError]
               ELSE [c EXCEPT !.pc = "sleeping", !.waits = c.waits + 1,
                              !.wakeAt = now + calculateDelay(retryConfig, c.attempt, r)]]
    /\ UNCHANGED <<retryFixed, now, calls>>

\* the timer of sleep(delay) fires: attempt++ and the next loop iteration
\* (lines 578-582, 626).  Past MaxTime the clock no longer tells instants
\* apart, so a timer due after MaxTime fires at MaxTime.
Wake(t) ==
    /\ task[t].pc = "sleeping"
    /\ now >= Min(task[t].wakeAt, MaxTime)
    /\ task' = [task EXCEPT ![t] =
            EnterAttempt([task[t] EXCEPT !.wakeAt = 0], task[t].attempt + 1)]
    /\ UNCHANGED <<retryFixed, now, cb, calls, lastOp>>

\* the awaited operation rejects inside executeWithCircuitBreaker (lines 639-642)
OperationFailsBreaker(t, e) ==
    /\ task[t].pc = "running"
    /\ task[t].kind = "breaker"
    /\ cb' = onFailure(cb, now)
    /\ lastOp' = Op("onFailure", cb, TRUE)
    /\ task' = [task EXCEPT ![t].pc = "thrown",
                            ![t].lastError = OperationError(e, task[t].invocations),
                            ![t].thrown = OperationError(e, task[t].invocations)]
    /\ UNCHANGED <<retryFixed, now, calls>>

\* resetCircuitBreaker() (lines 653-658)
ResetCircuitBreaker ==
    /\ calls < MaxCalls
    /\ calls' = calls + 1
    /\ cb' = resetBreaker(cb)
    /\ lastOp' = Op("resetCircuitBreaker", cb, TRUE)
    /\ UNCHANGED <<retryFixed, now, task>>

\* time passes
Tick ==
    /\ now < MaxTime
    /\ now' = now + 1
    /\ UNCHANGED <<retryFixed, cb, task, calls, lastOp>>

\* nothing has been handed to classifyError, nothing has come out of it
NoValue == [type |-> "none", code |-> NoCode, msgType |-> "undefined", msg |-> {}]
NotClassified == [done |-> FALSE, raised |-> FALSE, errorType |-> "none"]

\* a GasOptimizer nobody has called yet
NoNetworkConfig == [gasMultiplier100 |-> 0, minGasPrice |-> 0, maxGasPrice |-> 0]
NoEstimate == [status |-> "none", gasPrice |-> 0, returned |-> 0, failed |-> 0]

\* the parts of the program a specification leaves alone
PolicyIdle ==
    /\ options = NoOptions
    /\ policy = NoPolicy
    /\ delayCall = NoDelayCall
    /\ retryableErrors = DefaultRetryableErrors
ClassifyIdle == clsIn = NoValue /\ clsOut = NotClassified
GasIdle ==
    /\ networkConfig = NoNetworkConfig
    /\ gasHistory = <<>>
    /\ gasPending = 0
    /\ gasObserved = <<>>
    /\ gasLast = NoEstimate

\* a TransactionMonitor just constructed (metrics.startTime is left out)
NoTransactions == [h \in {} |-> 0]
NewMetrics ==
    [totalTransactions |-> 0, successfulTransactions |-> 0, failedTransactions |-> 0,
     totalGasUsed |-> 0, totalFeesPaid |-> 0, averageGasPrice |-> [num |-> 0, den |-> 1]]
NoMonitorOp == [op |-> "none", txHash |-> "none", had |-> FALSE]
NoReport == [made |-> FALSE, recentTransactions |-> <<>>, recentFailures |-> <<>>]
MonitorIdle ==
    /\ pendingTransactions = NoTransactions
    /\ completedTransactions = NoTransactions
    /\ failedTransactions = NoTransactions
    /\ metrics = NewMetrics
    /\ started = {}
    /\ monitorOp = NoMonitorOp
    /\ completedKeys = <<>>
    /\ failedKeys = <<>>
    /\ report = NoReport

\* a Logger of default configuration that nobody has called
DefaultLogConfig ==
    [enableLogging |-> TRUE, enableTelegram |-> FALSE, telegramBotToken |-> FALSE,
     enableDiscord |-> FALSE, discordWebhookUrl |-> FALSE, logLevel |-> "info",
     currentLevel |-> 2]
NoLogCall ==
    [pc |-> "none", n |-> 0, level |-> "info", data |-> "null", sendNotification |-> FALSE,
     emitted |-> FALSE, file |-> "none", telegram |-> "none", discord |-> "none",
     console |-> 0]
LoggerIdle ==
    /\ logConfig = DefaultLogConfig
    /\ logCall = NoLogCall
    /\ consoleErrors = <<>>

\* a bot whose executeBundle nobody has called
NoBundle ==
    [pc |-> "none", inv |-> 0, outcome |-> "none", gasPrice |-> 0, nonceBase |-> 0,
     nonce |-> 0, futureBlockNumber |-> 0, transactions |-> <<>>, gasPriceReads |-> 0,
     nonceReads |-> 0, assemblies |-> 0, simulated |-> <<>>, submitted |-> <<>>,
     simulations |-> 0, submissions |-> 0, failures |-> 0, building |-> {},
     error |-> [code |-> NoCode, msg |-> {}]]
BundleIdle == globals = {} /\ bundle = NoBundle

\* a RetryManager just constructed, no call made yet
NewRetryManager ==
    /\ now = 0
    /\ cb = NewCircuitBreaker
    /\ task = [t \in Tasks |-> NewCall("retry")]
    /\ calls = 0
    /\ lastOp = [op |-> "none", pre |-> "CLOSED", preCount |-> 0, ret |-> TRUE,
                 streak |-> 0]

Init ==
    /\ maxRetries \in {TxMaxRetries(o) : o \in 0 .. MaxRetriesOpt}
    /\ maxRetriesHalf = 0
    /\ failureThreshold \in {TxFailureThreshold(o) : o \in 0 .. MaxThresholdOpt}
    /\ errs = SampleErrors
    /\ NewRetryManager
    /\ PolicyIdle /\ ClassifyIdle /\ GasIdle
    /\ MonitorIdle /\ LoggerIdle /\ BundleIdle

Next ==
    \/ \E t \in Tasks : ExecuteWithRetry(t)
    \/ \E t \in Tasks : ExecuteWithCircuitBreaker(t)
    \/ \E t \in Tasks : OperationSucceeds(t)
    \/ \E t \in Tasks, e \in errs : OperationFails(t, e)
    \/ \E t \in Tasks, r \in RandomNums : AfterHandleError(t, r)
    \/ \E t \in Tasks : Wake(t)
    \/ \E t \in Tasks, e \in errs : OperationFailsBreaker(t, e)
    \/ ResetCircuitBreaker
    \/ Tick

Spec == Init /\ [][Next]_vars

\* the awaited operation settles, one way or the other
OperationCompletes(t) ==
    \/ OperationSucceeds(t)
    \/ \E e \in errs : OperationFails(t, e)
    \/ \E e \in errs : OperationFailsBreaker(t, e)

\* a step of a call in progress, or of the clock
Progress ==
    \/ Tick
    \/ \E t \in Tasks :
        \/ OperationCompletes(t)
        \/ \E r \in RandomNums : AfterHandleError(t, r)
        \/ Wake(t)

\* The runtime does not halt while an invoked operation can settle, a queued
\* continuation can run, time can pass or a timer can fire.
FairSpec == Spec /\ WF_vars(Progress)

----------------------------------------------------------------------------
(* The retry policy on its own: a constructor call, then calculateDelay *)

\* new RetryConfig(options) or new TransactionRetryManager(logger, options);
\* neither constructor has a path that throws
Construct(class) ==
    /\ policy = NoPolicy
    /\ policy' = IF class = "TransactionRetryManager"
                    THEN NewRetryConfig(TxRetryOptions(options))
                    ELSE NewRetryConfig(options)
    /\ UNCHANGED <<options, delayCall, retryableErrors, retryVars, classifyVars, gasVars>>
    /\ UNCHANGED <<monitorVars, loggerVars, bundleVars>>

\* policy.calculateDelay(attempt), Math.random() returning r / RandomDen
CalculateDelay(attempt, r) ==
    /\ policy # NoPolicy
    /\ delayCall' = [attempt |-> attempt, r |-> r,
                     delay |-> calculateDelay(policy, attempt, r)]
    /\ UNCHANGED <<options, policy, retryableErrors, retryVars, classifyVars, gasVars>>
    /\ UNCHANGED <<monitorVars, loggerVars, bundleVars>>

\* a RetryManager of default configuration stands by, untouched
RetryIdle ==
    /\ maxRetries = TxMaxRetries(0)
    /\ maxRetriesHalf = 0
    /\ failureThreshold = TxFailureThreshold(0)
    /\ errs = SampleErrors
    /\ NewRetryManager

PolicyInit ==
    /\ options \in PolicyOptions
    /\ policy = NoPolicy
    /\ delayCall = NoDelayCall
    /\ retryableErrors = DefaultRetryableErrors
    /\ RetryIdle /\ ClassifyIdle /\ GasIdle
    /\ MonitorIdle /\ LoggerIdle /\ BundleIdle

PolicyNext ==
    \/ \E class \in {"RetryConfig", "TransactionRetryManager"} : Construct(class)
    \/ \E attempt \in 1 .. MaxAttemptNo, r \in RandomNums : CalculateDelay(attempt, r)

PolicySpec == PolicyInit /\ [][PolicyNext]_vars

----------------------------------------------------------------------------
(* The retry engine under other configurations and other errors *)

\* maxRetries as the constructors accept it: any number but 0, which `||`
\* replaces by the default; here -1, 1/2, 1, 3/2, 2 and 5/2
LooseInit ==
    /\ maxRetries \in (0 - 1) .. 2
    /\ maxRetriesHalf \in {0, 1}
    /\ (maxRetries = 0 => maxRetriesHalf = 1)
    /\ (maxRetries < 0 => maxRetriesHalf = 0)
    /\ failureThreshold = TxFailureThreshold(0)
    /\ errs = SampleErrors
    /\ NewRetryManager
    /\ PolicyIdle /\ ClassifyIdle /\ GasIdle
    /\ MonitorIdle /\ LoggerIdle /\ BundleIdle

LooseSpec == LooseInit /\ [][Next]_vars

\* one error of every kind classifyError tells apart, by message or by code
KindSamples ==
    {[code |-> NoCode, msg |-> {m}] :
        m \in {"connection", "timeout", "too many requests", "internal error",
               "cannot estimate gas", "insufficient balance", "revert", "nonce",
               "gas price", "call exception", "validation"}}
    \cup {[code |-> c, msg |-> {}] : c \in {NoCode, "RATE_LIMITED", "503", "404"}}

\* a run in which the operations raise one error only, of any kind
KindsInit ==
    /\ maxRetries = TxMaxRetries(2)
    /\ maxRetriesHalf = 0
    /\ failureThreshold = TxFailureThreshold(0)
    /\ errs \in {{e} : e \in KindSamples}
    /\ NewRetryManager
    /\ PolicyIdle /\ ClassifyIdle /\ GasIdle
    /\ MonitorIdle /\ LoggerIdle /\ BundleIdle

KindsSpec == KindsInit /\ [][Next]_vars

\* options.retryableErrors || [...] of new RetryConfig(options): no list
\* given, an empty list (an empty array is not replaced by the default), a
\* list of one kind, a list of every kind
ConfiguredLists == {DefaultRetryableErrors, {}, {"INSUFFICIENT_FUNDS"}, ErrorTypes}

\* a run of a RetryManager made with a retryableErrors list of its own, in
\* which the operations raise one error only, of any kind
ListInit ==
    /\ maxRetries = TxMaxRetries(2)
    /\ maxRetriesHalf = 0
    /\ failureThreshold = TxFailureThreshold(0)
    /\ errs \in {{e} : e \in KindSamples}
    /\ NewRetryManager
    /\ options = NoOptions
    /\ policy = NoPolicy
    /\ delayCall = NoDelayCall
    /\ retryableErrors \in ConfiguredLists
    /\ ClassifyIdle /\ GasIdle
    /\ MonitorIdle /\ LoggerIdle /\ BundleIdle

ListSpec == ListInit /\ [][Next]_vars

----------------------------------------------------------------------------
(* The classifier on its own *)

\* every substring classifyError looks for
Substrings ==
    {"network", "connection", "timeout", "rate limit", "too many requests",
     "server error", "internal error", "gas estimation", "cannot estimate gas",
     "insufficient funds", "insufficient balance", "revert", "execution reverted",
     "nonce too low", "nonce", "gas price too low", "gas price", "contract",
     "call exception", "invalid", "validation"}

\* a message that contains one of these substrings contains the ones inside it
Contained(m) ==
    m \cup (IF "execution reverted" \in m THEN {"revert"} ELSE {})
      \cup (IF "nonce too low" \in m THEN {"nonce"} ELSE {})
      \cup (IF "gas price too low" \in m THEN {"gas price"} ELSE {})

\* the sets of at most k substrings
RECURSIVE SetsUpTo(_)
SetsUpTo(k) ==
    IF k = 0 THEN {{}}
    ELSE LET smaller == SetsUpTo(k - 1)
         IN  smaller \cup {S \cup {m} : S \in smaller, m \in Substrings}

\* the string messages of the model, each the set of substrings it contains
Messages == {Contained(S) : S \in SetsUpTo(MaxSubstrings)}

\* the code properties of the model: none, the three tags the classifier
\* knows, a tag it does not know, and numbers
Codes == {NoCode, "NETWORK_ERROR", "TIMEOUT", "RATE_LIMITED", "CALL_EXCEPTION"}
            \cup NumericCodes

\* The values classifyError is handed: null, undefined, or an object with a
\* code and a message that is missing, a string, or a number
ErrorValues ==
    {[type |-> t, code |-> NoCode, msgType |-> "undefined", msg |-> {}] :
        t \in {"null", "undefined"}}
    \cup [type : {"object"}, code : Codes, msgType : {"undefined", "number"}, msg : {{}}]
    \cup [type : {"object"}, code : Codes, msgType : {"string"}, msg : Messages]

\* A call classifyError(v).  `error.message` throws a TypeError when v is null
\* or undefined; `?.toLowerCase()` is skipped for a missing message, returns
\* the lower-cased text of a string, and throws a TypeError for a number,
\* which has no toLowerCase method.
classifyErrorCall(v) ==
    IF v.type \in {"null", "undefined"} \/ v.msgType = "number"
        THEN [done |-> TRUE, raised |-> TRUE, errorType |-> "none"]
        ELSE [done |-> TRUE, raised |-> FALSE,
              errorType |-> classifyError([code |-> v.code, msg |-> v.msg])]

ClassifyError ==
    /\ ~clsOut.done
    /\ clsOut' = classifyErrorCall(clsIn)
    /\ UNCHANGED <<clsIn, retryVars, policyVars, gasVars>>
    /\ UNCHANGED <<monitorVars, loggerVars, bundleVars>>

ClassifyInit ==
    /\ clsIn \in ErrorValues
    /\ clsOut = NotClassified
    /\ RetryIdle /\ PolicyIdle /\ GasIdle
    /\ MonitorIdle /\ LoggerIdle /\ BundleIdle

ClassifyNext == ClassifyError

ClassifySpec == ClassifyInit /\ [][ClassifyNext]_vars

----------------------------------------------------------------------------
(* GasOptimizer (src/utils/logger.js, lines 256-344) *)

\* this.maxHistorySize
maxHistorySize == 100

\* The networks of Config (bsc, bscTestnet, hardhat): Math.floor(gasMultiplier
\* * 100) and the price bounds.  Prices are counted in gwei.
Networks ==
    {[gasMultiplier100 |-> 120, minGasPrice |-> 5, maxGasPrice |-> 50],
     [gasMultiplier100 |-> 110, minGasPrice |-> 1, maxGasPrice |-> 20],
     [gasMultiplier100 |-> 100, minGasPrice |-> 1, maxGasPrice |-> 100]}

\* feeData.gasPrice as the provider reports it: a price, or null
QuoteList == <<0, 4, 18, 45, 110>>
Quotes == {QuoteList[i] : i \in DOMAIN QuoteList}

\* BigInt.prototype.toString(): the decimal digits, most significant first
DigitChars == <<"0", "1", "2", "3", "4", "5", "6", "7", "8", "9">>
RECURSIVE toString(_)
toString(n) ==
    IF n < 0 THEN <<"-">> \o toString(0 - n)
    ELSE IF n < 10 THEN <<DigitChars[n + 1]>>
    ELSE Append(toString(n \div 10), DigitChars[(n % 10) + 1])

\* BigInt(string), as getAverageGasPrice reads an entry back
RECURSIVE ParseBigInt(_)
ParseBigInt(str) ==
    IF str = <<>> THEN 0
    ELSE IF Head(str) = "-" THEN 0 - ParseBigInt(Tail(str))
    ELSE LET last == str[Len(str)]
             digit == (CHOOSE d \in DOMAIN DigitChars : DigitChars[d] = last) - 1
         IN  (10 * ParseBigInt(SubSeq(str, 1, Len(str) - 1))) + digit

\* faulty variant: the upper bound is not applied
boundedGasPriceNoMax(quote, nc) ==
    LET gasPrice == (quote * nc.gasMultiplier100) \div 100
    IN  IF gasPrice < nc.minGasPrice THEN nc.minGasPrice ELSE gasPrice

\* the multiplier applied to the quote (BigInt division, which truncates; no
\* price is negative) and the result brought within the bounds (lines 269-283)
boundedGasPrice(quote, nc) ==
    LET gasPrice == (quote * nc.gasMultiplier100) \div 100
    IN  IF gasPrice < nc.minGasPrice THEN nc.minGasPrice
        ELSE IF gasPrice > nc.maxGasPrice THEN nc.maxGasPrice
        ELSE gasPrice

\* the entry pushed for a quote (its timestamp is left out)
HistoryEntry(quote, nc) ==
    [gasPrice |-> toString(boundedGasPrice(quote, nc)), baseFee |-> toString(quote)]

\* faulty variant: slice(0, maxHistorySize), which drops the newest entries
keepRecentFromFront(h) ==
    IF Len(h) > maxHistorySize THEN SubSeq(h, 1, maxHistorySize) ELSE h

\* `if (length > maxHistorySize) gasHistory = gasHistory.slice(-maxHistorySize)`
keepRecent(h) ==
    IF Len(h) > maxHistorySize
        THEN SubSeq(h, (Len(h) - maxHistorySize) + 1, Len(h))
        ELSE h

\* estimateOptimalGasPrice is called and awaits provider.getFeeData()
EstimateOptimalGasPrice ==
    /\ gasPending + gasLast.returned + gasLast.failed < MaxEstimates
    /\ gasPending' = gasPending + 1
    /\ UNCHANGED <<networkConfig, gasHistory, gasObserved, gasLast>>
    /\ UNCHANGED <<retryVars, policyVars, classifyVars>>
    /\ UNCHANGED <<monitorVars, loggerVars, bundleVars>>

\* getFeeData() resolves for one of the waiting calls, and the call runs to
\* its end: with a null gasPrice the multiplication throws a TypeError, which
\* the catch block logs and throws again; otherwise the entry is pushed, the
\* history is cut and the price is returned
FeeDataResolves(quote) ==
    /\ gasPending > 0
    /\ gasPending' = gasPending - 1
    /\ IF quote = Null
          THEN /\ gasLast' = [gasLast EXCEPT !.status = "failed", !.gasPrice = 0,
                                             !.failed = gasLast.failed + 1]
               /\ UNCHANGED <<gasHistory, gasObserved>>
          ELSE /\ gasHistory' = keepRecent(Append(gasHistory, HistoryEntry(quote, networkConfig)))
               /\ gasObserved' = Append(gasObserved, HistoryEntry(quote, networkConfig))
               /\ gasLast' = [gasLast EXCEPT !.status = "returned",
                                             !.gasPrice = boundedGasPrice(quote, networkConfig),
                                             !.returned = gasLast.returned + 1]
    /\ UNCHANGED networkConfig
    /\ UNCHANGED <<retryVars, policyVars, classifyVars>>
    /\ UNCHANGED <<monitorVars, loggerVars, bundleVars>>

\* getFeeData() rejects for one of the waiting calls: logged and thrown again
FeeDataRejects ==
    /\ gasPending > 0
    /\ gasPending' = gasPending - 1
    /\ gasLast' = [gasLast EXCEPT !.status = "failed", !.gasPrice = 0,
                                  !.failed = gasLast.failed + 1]
    /\ UNCHANGED <<networkConfig, gasHistory, gasObserved>>
    /\ UNCHANGED <<retryVars, policyVars, classifyVars>>
    /\ UNCHANGED <<monitorVars, loggerVars, bundleVars>>

\* the history after k estimates that returned, their quotes taken in turn
\* from QuoteList
EarlierEntries(k, nc) ==
    [i \in 1 .. k |-> HistoryEntry(QuoteList[(i % Len(QuoteList)) + 1], nc)]

\* a GasOptimizer that is new, or that has returned maxHistorySize - 1 or
\* maxHistorySize estimates before
GasInit ==
    /\ networkConfig \in Networks
    /\ \E k \in {0, maxHistorySize - 1, maxHistorySize} :
            /\ gasHistory = EarlierEntries(k, networkConfig)
            /\ gasObserved = EarlierEntries(k, networkConfig)
    /\ gasPending = 0
    /\ gasLast = NoEstimate
    /\ RetryIdle /\ PolicyIdle /\ ClassifyIdle
    /\ MonitorIdle /\ LoggerIdle /\ BundleIdle

GasNext ==
    \/ EstimateOptimalGasPrice
    \/ \E quote \in Quotes \cup {Null} : FeeDataResolves(quote)
    \/ FeeDataRejects

GasSpec == GasInit /\ [][GasNext]_vars

----------------------------------------------------------------------------
(* TransactionMonitor (src/utils/logger.js, lines 151-254) *)

\* transaction hashes, the txData objects handed to startMonitoring, the
\* status arguments handed to updateTransactionStatus ("dropped" stands for
\* any string but 'success' and 'failed')
TxHashes == {"0xa", "0xb"}
TxDatas == {"deploy", "swap"}
Statuses == {"success", "failed", "dropped"}

\* the receipt argument: null (its default), or a receipt with gasUsed and
\* effectiveGasPrice
NoReceipt == [null |-> TRUE, gasUsed |-> 0, effectiveGasPrice |-> 0]
Receipts ==
    {NoReceipt} \cup [null : {FALSE}, gasUsed : {0, 21}, effectiveGasPrice : {5}]

\* Map.prototype.set and Map.prototype.delete
MapSet(m, k, v) == [x \in DOMAIN m \cup {k} |-> IF x = k THEN v ELSE m[x]]
MapDelete(m, k) == [x \in DOMAIN m \ {k} |-> m[x]]

\* does the monitor hold a record of the hash, in any of its maps
HasRecord(txHash) ==
    \/ txHash \in DOMAIN pendingTransactions
    \/ txHash \in DOMAIN completedTransactions
    \/ txHash \in DOMAIN failedTransactions

\* startMonitoring(txHash, txData)
StartMonitoring(txHash, txData) ==
    /\ pendingTransactions' =
            MapSet(pendingTransactions, txHash,
                   [txData |-> txData, startTime |-> now, status |-> "pending"])
    /\ metrics' = [metrics EXCEPT !.totalTransactions = metrics.totalTransactions + 1]
    /\ started' = started \cup {txHash}
    /\ monitorOp' = [op |-> "startMonitoring", txHash |-> txHash, had |-> HasRecord(txHash)]
    /\ UNCHANGED <<completedTransactions, failedTransactions, completedKeys, failedKeys,
                   report>>
    /\ UNCHANGED <<retryVars, policyVars, classifyVars, gasVars, loggerVars, bundleVars>>

\* updateMetrics(): totalFeesPaid / totalGasUsed as the fraction num / den; a
\* den of 0 is the NaN or Infinity a division by 0 gives
updateMetrics(m) ==
    IF m.successfulTransactions > 0
        THEN [m EXCEPT !.averageGasPrice = [num |-> m.totalFeesPaid, den |-> m.totalGasUsed]]
        ELSE m

\* Map.prototype.set, on the iteration order of the keys: a new key goes to
\* the end, a key the Map already holds keeps its place
KeysSet(keys, m, k) == IF k \in DOMAIN m THEN keys ELSE Append(keys, k)

\* updateTransactionStatus(txHash, status, receipt); finishNo, which the code
\* does not store, is the record's place among the records stored so far
UpdateTransactionStatus(txHash, status, receipt) ==
    /\ monitorOp' = [op |-> "updateTransactionStatus", txHash |-> txHash,
                     had |-> HasRecord(txHash)]
    /\ IF txHash \notin DOMAIN pendingTransactions
          THEN UNCHANGED <<pendingTransactions, completedTransactions, failedTransactions,
                           metrics, completedKeys, failedKeys>>
          ELSE LET txData == pendingTransactions[txHash]
                   updatedTxData ==
                       [txData |-> txData.txData, startTime |-> txData.startTime,
                        status |-> status, endTime |-> now,
                        duration |-> now - txData.startTime, receipt |-> receipt,
                        finishNo |-> metrics.successfulTransactions
                                        + metrics.failedTransactions + 1]
               IN  /\ IF status = "success" /\ ~receipt.null
                         THEN /\ completedTransactions' =
                                      MapSet(completedTransactions, txHash, updatedTxData)
                              /\ completedKeys' =
                                      KeysSet(completedKeys, completedTransactions, txHash)
                              /\ metrics' = updateMetrics(
                                    [metrics EXCEPT
                                       !.successfulTransactions = @ + 1,
                                       !.totalGasUsed = @ + receipt.gasUsed,
                                       !.totalFeesPaid =
                                            @ + (receipt.gasUsed * receipt.effectiveGasPrice)])
                              /\ UNCHANGED <<failedTransactions, failedKeys>>
                       ELSE IF status = "failed"
                         THEN /\ failedTransactions' =
                                      MapSet(failedTransactions, txHash, updatedTxData)
                              /\ failedKeys' = KeysSet(failedKeys, failedTransactions, txHash)
                              /\ metrics' = updateMetrics(
                                    [metrics EXCEPT !.failedTransactions = @ + 1])
                              /\ UNCHANGED <<completedTransactions, completedKeys>>
                       ELSE /\ metrics' = updateMetrics(metrics)
                            /\ UNCHANGED <<completedTransactions, failedTransactions,
                                           completedKeys, failedKeys>>
                   /\ pendingTransactions' = MapDelete(pendingTransactions, txHash)
    /\ UNCHANGED <<started, report>>
    /\ UNCHANGED <<retryVars, policyVars, classifyVars, gasVars, loggerVars, bundleVars>>

MonitorInit ==
    /\ MonitorIdle
    /\ RetryIdle /\ PolicyIdle /\ ClassifyIdle /\ GasIdle /\ LoggerIdle /\ BundleIdle

\* calls of the monitor, and the clock its Date.now() reads
MonitorNext ==
    \/ \E txHash \in TxHashes, txData \in TxDatas :
            /\ metrics.totalTransactions < MaxMonitorCalls
            /\ StartMonitoring(txHash, txData)
    \/ \E txHash \in TxHashes, status \in Statuses, receipt \in Receipts :
            UpdateTransactionStatus(txHash, status, receipt)
    \/ Tick

MonitorSpec == MonitorInit /\ [][MonitorNext]_vars

\* the sizes of the report's windows: slice(-10) and slice(-5)
recentTransactionsSize == 10
recentFailuresSize == 5

\* Array.prototype.slice(-n)
SliceLast(seq, n) ==
    IF Len(seq) <= n THEN seq ELSE SubSeq(seq, Len(seq) - n + 1, Len(seq))

\* Array.from(map.values()): the values in the iteration order of the keys
Values(m, keys) == [i \in DOMAIN keys |-> m[keys[i]]]

\* generateReport() (lines 242-253): the two windows of the report
GenerateReport ==
    /\ ~report.made
    /\ report' =
          [made |-> TRUE,
           recentTransactions |->
               SliceLast(Values(completedTransactions, completedKeys),
                         recentTransactionsSize),
           recentFailures |->
               SliceLast(Values(failedTransactions, failedKeys), recentFailuresSize)]
    /\ UNCHANGED <<pendingTransactions, completedTransactions, failedTransactions, metrics,
                   started, monitorOp, completedKeys, failedKeys>>
    /\ UNCHANGED <<retryVars, policyVars, classifyVars, gasVars, loggerVars, bundleVars>>

\* the hashes of a run that ends with a report, and the receipt of its
\* successes
ReportHashes == {"0x1", "0x2", "0x3", "0x4", "0x5", "0x6"}
HashNo(txHash) ==
    CASE txHash = "0x1" -> 1 [] txHash = "0x2" -> 2 [] txHash = "0x3" -> 3
      [] txHash = "0x4" -> 4 [] txHash = "0x5" -> 5 [] OTHER -> 6
MinedReceipt == [null |-> FALSE, gasUsed |-> 21, effectiveGasPrice |-> 5]

\* One transaction is watched at a time, from its start to its finish as a
\* success or a failure; a hash may be started again once it has finished,
\* and new hashes are taken in the order of their numbers.  The run ends with
\* the report.
ReportNext ==
    \/ \E txHash \in ReportHashes :
            /\ ~report.made
            /\ metrics.totalTransactions < MaxReportCalls
            /\ pendingTransactions = NoTransactions
            /\ \A h \in ReportHashes : HashNo(h) < HashNo(txHash) => h \in started
            /\ StartMonitoring(txHash, "swap")
    \/ \E txHash \in ReportHashes, status \in {"success", "failed"} :
            /\ ~report.made
            /\ txHash \in DOMAIN pendingTransactions
            /\ UpdateTransactionStatus(txHash, status, MinedReceipt)
    \/ GenerateReport

ReportSpec == MonitorInit /\ [][ReportNext]_vars

----------------------------------------------------------------------------
(* Logger (src/utils/logger.js, lines 10-149) *)

\* this.logLevels, and the level names a caller or the configuration may give
\* ("verbose" stands for any name that is not a key of logLevels)
logLevels == [error |-> 0, warn |-> 1, info |-> 2, debug |-> 3, trace |-> 4]
LevelNames == {"error", "warn", "info", "debug", "trace"}
LogLevelSettings == LevelNames \cup {"verbose"}

\* this.logLevels[config.monitoring.logLevel] || this.logLevels.info
currentLevelOf(logLevel) ==
    IF logLevel \in LevelNames THEN OrDefault(logLevels[logLevel], logLevels.info)
                               ELSE logLevels.info

\* the data argument: null, an object, or an object JSON.stringify throws on
\* (a cycle, a BigInt)
LogDatas == {"null", "object", "circular"}

\* what each sink's catch block prints first
FileLabel == "Failed to write to log file:"
TelegramLabel == "Failed to send Telegram notification:"
DiscordLabel == "Failed to send Discord notification:"

\* faulty variant: the sink's body is not wrapped in try / catch
trySinkUncaught(failed, label) ==
    [rejects |-> failed, console |-> <<>>]

\* try { sink body } catch (error) { console.error(label, error.message) }
trySink(failed, label) ==
    [rejects |-> FALSE, console |-> IF failed THEN <<label>> ELSE <<>>]

\* a sink's state once its body ran to the end or into its catch block
Settled(failed) == IF failed THEN "failed" ELSE "ok"

\* log(level, message, data, sendNotification) up to `await
\* this.writeToFile(...)`, and writeToFile up to its `await fs.appendFile(...)`
Log(level, data, sendNotification) ==
    /\ logCall.pc \in {"none", "returned"}
    /\ logCall.n < MaxLogCalls
    /\ LET c == [NoLogCall EXCEPT !.n = logCall.n + 1, !.level = level, !.data = data,
                                  !.sendNotification = sendNotification,
                                  !.emitted = logLevels[level] <= logConfig.currentLevel,
                                  !.console = Len(consoleErrors)]
           r == trySink(data = "circular", FileLabel)
       IN  IF logLevels[level] > logConfig.currentLevel
             THEN /\ logCall' = [c EXCEPT !.pc = "returned"]
                  /\ UNCHANGED consoleErrors
             ELSE IF ~logConfig.enableLogging
               THEN /\ logCall' = [c EXCEPT !.pc = "writeToFile", !.file = "skipped"]
                    /\ UNCHANGED consoleErrors
               ELSE IF data = "circular"
                 THEN /\ logCall' = [c EXCEPT !.pc = IF r.rejects THEN "thrown"
                                                                  ELSE "writeToFile",
                                              !.file = "failed"]
                      /\ consoleErrors' = consoleErrors \o r.console
                 ELSE /\ logCall' = [c EXCEPT !.pc = "writeToFile", !.file = "appending"]
                      /\ UNCHANGED consoleErrors
    /\ UNCHANGED logConfig
    /\ UNCHANGED <<retryVars, policyVars, classifyVars, gasVars, monitorVars, bundleVars>>

\* fs.appendFile settles (lines 52-55)
AppendFile(failed) ==
    /\ logCall.pc = "writeToFile"
    /\ logCall.file = "appending"
    /\ LET r == trySink(failed, FileLabel)
       IN  /\ logCall' = [logCall EXCEPT !.file = Settled(failed),
                                         !.pc = IF r.rejects THEN "thrown" ELSE @]
           /\ consoleErrors' = consoleErrors \o r.console
    /\ UNCHANGED logConfig
    /\ UNCHANGED <<retryVars, policyVars, classifyVars, gasVars, monitorVars, bundleVars>>

\* writeToFile resolved: `if (sendNotification) await Promise.all([...])`, with
\* both notification functions run up to their `await axios.post(...)`
\* (lines 58-71, 77-101, 122-127); with data the Telegram body throws at
\* `text +=`, an assignment to a const
Notify ==
    /\ logCall.pc = "writeToFile"
    /\ logCall.file # "appending"
    /\ LET telegramOn == logConfig.enableTelegram /\ logConfig.telegramBotToken
           discordOn == logConfig.enableDiscord /\ logConfig.discordWebhookUrl
           typeError == telegramOn /\ logCall.data # "null"
           r == trySink(typeError, TelegramLabel)
       IN  IF ~logCall.sendNotification
             THEN /\ logCall' = [logCall EXCEPT !.pc = "returned"]
                  /\ UNCHANGED consoleErrors
             ELSE /\ logCall' =
                        [logCall EXCEPT
                            !.pc = IF r.rejects THEN "thrown" ELSE "notifying",
                            !.telegram = IF ~telegramOn THEN "skipped"
                                         ELSE IF typeError THEN "failed" ELSE "posting",
                            !.discord = IF discordOn THEN "posting" ELSE "skipped"]
                  /\ consoleErrors' = consoleErrors \o r.console
    /\ UNCHANGED logConfig
    /\ UNCHANGED <<retryVars, policyVars, classifyVars, gasVars, monitorVars, bundleVars>>

\* the Telegram axios.post settles (lines 67-74)
TelegramPost(failed) ==
    /\ logCall.pc = "notifying"
    /\ logCall.telegram = "posting"
    /\ LET r == trySink(failed, TelegramLabel)
       IN  /\ logCall' = [logCall EXCEPT !.telegram = Settled(failed),
                                         !.pc = IF r.rejects THEN "thrown" ELSE @]
           /\ consoleErrors' = consoleErrors \o r.console
    /\ UNCHANGED logConfig
    /\ UNCHANGED <<retryVars, policyVars, classifyVars, gasVars, monitorVars, bundleVars>>

\* the Discord axios.post settles (lines 99-104)
DiscordPost(failed) ==
    /\ logCall.pc = "notifying"
    /\ logCall.discord = "posting"
    /\ LET r == trySink(failed, DiscordLabel)
       IN  /\ logCall' = [logCall EXCEPT !.discord = Settled(failed),
                                         !.pc = IF r.rejects THEN "thrown" ELSE @]
           /\ consoleErrors' = consoleErrors \o r.console
    /\ UNCHANGED logConfig
    /\ UNCHANGED <<retryVars, policyVars, classifyVars, gasVars, monitorVars, bundleVars>>

\* Promise.all resolved: log returns (lines 123-128)
LogReturns ==
    /\ logCall.pc = "notifying"
    /\ logCall.telegram # "posting"
    /\ logCall.discord # "posting"
    /\ logCall' = [logCall EXCEPT !.pc = "returned"]
    /\ UNCHANGED <<logConfig, consoleErrors>>
    /\ UNCHANGED <<retryVars, policyVars, classifyVars, gasVars, monitorVars, bundleVars>>

\* new Logger(config), for every monitoring configuration
LoggerInit ==
    /\ \E enableLogging, enableTelegram, telegramBotToken, enableDiscord,
              discordWebhookUrl \in BOOLEAN, logLevel \in LogLevelSettings :
            logConfig = [enableLogging |-> enableLogging,
                         enableTelegram |-> enableTelegram,
                         telegramBotToken |-> telegramBotToken,
                         enableDiscord |-> enableDiscord,
                         discordWebhookUrl |-> discordWebhookUrl,
                         logLevel |-> logLevel,
                         currentLevel |-> currentLevelOf(logLevel)]
    /\ logCall = NoLogCall
    /\ consoleErrors = <<>>
    /\ RetryIdle /\ PolicyIdle /\ ClassifyIdle /\ GasIdle /\ MonitorIdle /\ BundleIdle

\* error(), warn(), info(), debug() and trace() are log() with their level,
\* and a caller may give sendNotification either value
LoggerNext ==
    \/ \E level \in LevelNames, data \in LogDatas, sendNotification \in BOOLEAN :
            Log(level, data, sendNotification)
    \/ \E failed \in BOOLEAN : AppendFile(failed)
    \/ Notify
    \/ \E failed \in BOOLEAN : TelegramPost(failed)
    \/ \E failed \in BOOLEAN : DiscordPost(failed)
    \/ LogReturns

LoggerSpec == LoggerInit /\ [][LoggerNext]_vars

----------------------------------------------------------------------------
(* OptimizedBundlerBot.executeBundle (src/unnamed/part_000, lines 308-432) *)

\* the transactions of one bundle, and how far ahead of the current block the
\* bundle is aimed
BundleSteps == 8
BlocksAhead == 5

\* config.bloxroute.maxRetries: parseInt(process.env.BLOXROUTE_MAX_RETRIES || '3')
BloxrouteMaxRetries == 3

\* what the provider answers: gas prices, pending transaction counts of the
\* wallet, block heights
GasPrices == {5, 6}
PendingCounts == {0, 4}
BlockHeights == {100}

\* what the relay's simulate endpoint answers in response.data
SimulationResults == {"ok", "failure"}

\* the identifiers that executeBundle reads outside the arrow function, where
\* it declares none of them (lines 429-430)
FreeIdentifiers == {"gasPrice", "nonce"}

\* the task that runs the bundle
Bot == 1

\* the arrow function's locals at its entry
NewAttempt(b, inv) ==
    [b EXCEPT !.pc = "getOptimalGasPrice", !.inv = inv, !.gasPrice = 0, !.nonceBase = 0,
              !.nonce = 0, !.futureBlockNumber = 0, !.transactions = <<>>,
              !.simulated = <<>>, !.submitted = <<>>, !.building = {},
              !.error = [code |-> NoCode, msg |-> {}]]

\* the transactions in the order their create...Transaction calls are written
\* (lines 329, 339, 348, 363, 376, 383, 393, 400)
StepOrder ==
    <<"deploy", "approveWbnbToNfpm", "approveTokenToNfpm", "createPool", "addLiquidity",
      "approveWbnbToRouter", "swap", "transferFee">>

\* faulty variant: every remaining transaction is built at once
startNextAll(k) == (k + 1) .. BundleSteps

\* the create...Transaction calls begun once k transactions are signed: each
\* call is awaited before the next statement runs
startNext(k) == IF k < BundleSteps THEN {k + 1} ELSE {}

\* faulty variant: nonce += 2 between two transactions
nextNonceSkips(nonce) == nonce + 2

\* nonce++ (lines 338, 347, 362, 375, 382, 391, 399)
nextNonce(nonce) == nonce + 1

\* the bundle function is running in the attempt that invoked it
InBundle(pc) ==
    /\ task[Bot].pc = "running"
    /\ bundle.inv = task[Bot].invocations
    /\ bundle.pc = pc

\* executeBundle(): the argument list of this.retryManager.executeBundle(...)
\* is evaluated first, and its context object reads gasPrice and nonce; with
\* either not bound the call rejects with a ReferenceError, else
\* TransactionRetryManager.executeBundle enters executeWithRetry
ExecuteBundle ==
    /\ bundle.outcome = "none"
    /\ task[Bot].pc = "idle"
    /\ IF FreeIdentifiers \subseteq globals
          THEN ExecuteWithRetry(Bot)
          ELSE /\ bundle' = [bundle EXCEPT !.outcome = "ReferenceError"]
               /\ UNCHANGED <<globals, retryVars, policyVars, classifyVars, gasVars,
                              monitorVars, loggerVars>>

\* `await operation()` calls the arrow function: up to `await
\* this.getOptimalGasPrice()` (lines 309-311)
BundleFunction ==
    /\ task[Bot].pc = "running"
    /\ bundle.inv # task[Bot].invocations
    /\ bundle' = NewAttempt(bundle, task[Bot].invocations)
    /\ UNCHANGED <<globals, retryVars, policyVars, classifyVars, gasVars, monitorVars, loggerVars>>

\* getOptimalGasPrice() resolves (line 311)
GetOptimalGasPrice(gasPrice) ==
    /\ InBundle("getOptimalGasPrice")
    /\ bundle' = [bundle EXCEPT !.pc = "getCurrentNonce", !.gasPrice = gasPrice,
                                !.gasPriceReads = @ + 1]
    /\ UNCHANGED <<globals, retryVars, policyVars, classifyVars, gasVars, monitorVars, loggerVars>>

\* getCurrentNonce() resolves (line 312)
GetCurrentNonce(count) ==
    /\ InBundle("getCurrentNonce")
    /\ bundle' = [bundle EXCEPT !.pc = "getFutureBlockNumber", !.nonceBase = count,
                                !.nonce = count, !.nonceReads = @ + 1]
    /\ UNCHANGED <<globals, retryVars, policyVars, classifyVars, gasVars, monitorVars, loggerVars>>

\* getFutureBlockNumber() resolves (lines 103-106, 313)
GetFutureBlockNumber(currentBlock) ==
    /\ InBundle("getFutureBlockNumber")
    /\ bundle' = [bundle EXCEPT !.pc = "signTransaction",
                                !.futureBlockNumber = currentBlock + BlocksAhead,
                                !.assemblies = @ + 1,
                                !.building = startNext(0)]
    /\ UNCHANGED <<globals, retryVars, policyVars, classifyVars, gasVars, monitorVars, loggerVars>>

\* one of the eight create...Transaction calls resolves with the signed
\* transaction, and the code runs on to the next one's await, through its
\* nonce++, or to the await of simulateBundle (lines 329-414)
SignTransaction ==
    /\ InBundle("signTransaction")
    /\ \E i \in bundle.building :
        LET signed == [step |-> StepOrder[i], nonce |-> bundle.nonce,
                       gasPrice |-> bundle.gasPrice]
            transactions == Append(bundle.transactions, signed)
            begun == (bundle.building \ {i}) \cup startNext(Len(transactions))
        IN  bundle' = IF Len(transactions) < BundleSteps
                         THEN [bundle EXCEPT !.transactions = transactions,
                                             !.nonce = nextNonce(bundle.nonce),
                                             !.building = begun]
                         ELSE [bundle EXCEPT !.transactions = transactions,
                                             !.building = begun,
                                             !.pc = "simulateBundle"]
    /\ UNCHANGED <<globals, retryVars, policyVars, classifyVars, gasVars, monitorVars, loggerVars>>

\* the request simulateBundle posted
Payload(b) == [transaction |-> b.transactions, block_number |-> b.futureBlockNumber]

\* simulateBundle resolves with response.data, which is logged, and the code
\* runs on to the await of submitBundle (lines 414-418)
SimulateBundle(result) ==
    /\ InBundle("simulateBundle")
    /\ bundle' = [bundle EXCEPT !.pc = "submitBundle",
                                !.simulated = <<[payload |-> Payload(bundle),
                                                 result |-> result]>>,
                                !.simulations = @ + 1]
    /\ UNCHANGED <<globals, retryVars, policyVars, classifyVars, gasVars, monitorVars, loggerVars>>

\* the simulate request fails: axios.post rejects and the bundle function with it
SimulateBundleRejects(e) ==
    /\ InBundle("simulateBundle")
    /\ bundle' = [bundle EXCEPT !.pc = "rejected", !.error = e,
                                !.simulated = <<[payload |-> Payload(bundle),
                                                 result |-> "rejected"]>>,
                                !.simulations = @ + 1, !.failures = @ + 1]
    /\ UNCHANGED <<globals, retryVars, policyVars, classifyVars, gasVars, monitorVars, loggerVars>>

\* submitBundle resolves and the bundle function returns (lines 418-426)
SubmitBundle ==
    /\ InBundle("submitBundle")
    /\ bundle' = [bundle EXCEPT !.pc = "resolved",
                                !.submitted = <<[payload |-> Payload(bundle),
                                                 result |-> "ok"]>>,
                                !.submissions = @ + 1]
    /\ UNCHANGED <<globals, retryVars, policyVars, classifyVars, gasVars, monitorVars, loggerVars>>

\* the submit request fails
SubmitBundleRejects(e) ==
    /\ InBundle("submitBundle")
    /\ bundle' = [bundle EXCEPT !.pc = "rejected", !.error = e,
                                !.submitted = <<[payload |-> Payload(bundle),
                                                 result |-> "rejected"]>>,
                                !.submissions = @ + 1, !.failures = @ + 1]
    /\ UNCHANGED <<globals, retryVars, policyVars, classifyVars, gasVars, monitorVars, loggerVars>>

\* executeWithRetry's `await operation()` resolves with what the bundle
\* function returned
BundleResolves == InBundle("resolved") /\ OperationSucceeds(Bot)

\* executeWithRetry's `await operation()` rejects with what the bundle
\* function threw
BundleRejects == InBundle("rejected") /\ OperationFails(Bot, bundle.error)

\* new OptimizedBundlerBot() (lines 20-39), in a process whose global object
\* binds any of the identifiers executeBundle reads, or none
BundleInit ==
    /\ globals \in SUBSET FreeIdentifiers
    /\ bundle = NoBundle
    /\ maxRetries = TxMaxRetries(BloxrouteMaxRetries)
    /\ maxRetriesHalf = 0
    /\ failureThreshold = TxFailureThreshold(0)
    /\ errs = SampleErrors
    /\ NewRetryManager
    /\ PolicyIdle /\ ClassifyIdle /\ GasIdle /\ MonitorIdle /\ LoggerIdle

BundleNext ==
    \/ ExecuteBundle
    \/ BundleFunction
    \/ \E gasPrice \in GasPrices : GetOptimalGasPrice(gasPrice)
    \/ \E count \in PendingCounts : GetCurrentNonce(count)
    \/ \E currentBlock \in BlockHeights : GetFutureBlockNumber(currentBlock)
    \/ SignTransaction
    \/ \E result \in SimulationResults : SimulateBundle(result)
    \/ \E e \in errs : SimulateBundleRejects(e)
    \/ SubmitBundle
    \/ \E e \in errs : SubmitBundleRejects(e)
    \/ BundleResolves
    \/ BundleRejects
    \/ \E r \in RandomNums : AfterHandleError(Bot, r)
    \/ Wake(Bot)
    \/ Tick

BundleSpec == BundleInit /\ [][BundleNext]_vars

----------------------------------------------------------------------------
(* Steps of the breaker's methods, told from a pair of states *)

\* canExecute() ran: only the entry of a call runs it
CanExecuteStep == calls' = calls + 1 /\ lastOp'.op = "canExecute"

\* onSuccess() ran: an awaited operation resolved
OnSuccessStep == \E t \in Tasks : task[t].pc = "running" /\ task'[t].pc = "returned"

\* onFailure() ran
OnFailureStep ==
    \E t \in Tasks :
        \/ task[t].pc = "handling" /\ task'[t].pc # "handling"
        \/ task[t].pc = "running" /\ task[t].kind = "breaker" /\ task'[t].pc = "thrown"

\* resetCircuitBreaker() ran
ResetStep == calls' = calls + 1 /\ lastOp'.op = "resetCircuitBreaker"

\* task t's operation is invoked in this step
InvokeStep(t) == task[t].pc # "running" /\ task'[t].pc = "running"

\* the breaker refuses calls: OPEN, and recoveryTimeout not elapsed at instant i
Blocking(b, i) == b.state = "OPEN" /\ i - b.lastFailureTime < recoveryTimeout

----------------------------------------------------------------------------
(* Claims *)

\* C1: inside one executeWithRetry call every invocation of the operation,
\* the first and every retry, is preceded by a canExecute() check of its own
\* (so a call never has more invocations than gate checks), and a call whose
\* check returned false ends with the circuit-open error without invoking
\* the operation.
C1_GateCheckBeforeEveryAttempt ==
    \A t \in Tasks :
        task[t].kind = "retry" =>
            /\ task[t].invocations <= task[t].gateChecks
            /\ (task[t].pc = "thrown" /\ task[t].thrown = CircuitOpenError
                    => task[t].invocations = 0)

\* C2: the executor never invokes the operation while the breaker is OPEN and
\* recoveryTimeout has not elapsed since lastFailureTime (so with
\* failureThreshold = 3 and five consecutive retryable failures, attempts 4
\* and 5 are not invoked).
C2_NoInvocationWhileOpen ==
    [][\A t \in Tasks : InvokeStep(t) => ~Blocking(cb', now')]_vars

\* C3 as stated: a finished executeWithRetry call none of whose invocations
\* failed with a non-retryable kind and that ended in failure has invoked
\* the operation exactly maxRetries times, waited maxRetries - 1 times and
\* throws the error of invocation number maxRetries.
C3_ExhaustionAnyCall ==
    \A t \in Tasks :
        (/\ task[t].kind = "retry"
         /\ task[t].pc = "thrown"
         /\ ~(/\ task[t].thrown.origin = "operation"
              /\ ~isRetryable(classifyError(task[t].thrown.err))))
        => /\ task[t].invocations = maxRetries
           /\ task[t].waits = maxRetries - 1
           /\ task[t].thrown.origin = "operation"
           /\ task[t].thrown.inv = maxRetries

\* C3 amended: an executeWithRetry call that passed the breaker gate at its
\* entry and ended by throwing a retryable error of the operation has invoked
\* the operation exactly maxRetries times, waited exactly maxRetries - 1
\* times, and the thrown error is the one raised by invocation number
\* maxRetries.
C3_ExhaustionAdmittedCall ==
    \A t \in Tasks :
        (/\ task[t].kind = "retry"
         /\ task[t].pc = "thrown"
         /\ task[t].thrown.origin = "operation"
         /\ classifyError(task[t].thrown.err) \in
                {"NETWORK_ERROR", "TIMEOUT", "RATE_LIMITED", "SERVER_ERROR",
                 "GAS_ESTIMATION_FAILED", "NONCE_TOO_LOW", "GAS_PRICE_TOO_LOW"})
        => /\ task[t].invocations = maxRetries
           /\ task[t].waits = maxRetries - 1
           /\ task[t].thrown = task[t].lastError
           /\ task[t].thrown.inv = maxRetries

\* C3 witness: a call with maxRetries = 5 that invoked the operation five
\* times, waited four times and threw the fifth timeout error
C3_Witness ==
    \E t \in Tasks :
        /\ maxRetries = 5
        /\ task[t].kind = "retry"
        /\ task[t].pc = "thrown"
        /\ task[t].thrown = OperationError(ErrTimeout, 5)
        /\ task[t].invocations = 5
        /\ task[t].waits = 4

\* the kinds claim C4 lists as non-retryable
C4_NonRetryableKinds ==
    {"INSUFFICIENT_FUNDS", "TRANSACTION_REVERTED", "CONTRACT_ERROR",
     "VALIDATION_ERROR", "CONFIGURATION_ERROR", "UNKNOWN_ERROR"}

\* C4: when an attempt of executeWithRetry failed with an error of a
\* non-retryable kind, the call's next step throws exactly that error, with
\* no further invocation and no backoff wait, however many attempts remain.
C4_NonRetryablePropagatesAtOnce ==
    [][\A t \in Tasks :
          (/\ task[t].pc = "handling"
           /\ classifyError(task[t].lastError.err) \in C4_NonRetryableKinds
           /\ task'[t] # task[t])
          => /\ task'[t].pc = "thrown"
             /\ task'[t].thrown = task[t].lastError
             /\ task'[t].invocations = task[t].invocations
             /\ task'[t].waits = task[t].waits]_vars

\* C4 witness: the first attempt of a call with maxRetries = 5 failed with
\* insufficient funds, and the call threw that error after one invocation
\* and no wait
C4_Witness ==
    \E t \in Tasks :
        /\ maxRetries = 5
        /\ task[t].kind = "retry"
        /\ task[t].pc = "thrown"
        /\ task[t].thrown = OperationError(ErrFunds, 1)
        /\ task[t].invocations = 1
        /\ task[t].waits = 0

\* C5: when an executeWithRetry call returns after k failed invocations (k is
\* the number of the last failed invocation, 0 if none), then k < maxRetries,
\* the call has made exactly k + 1 invocations and k backoff waits, and the
\* breaker is CLOSED with failureCount 0 at the return.
C5_SuccessAfterRetries ==
    [][\A t \in Tasks :
          (task[t].kind = "retry" /\ task[t].pc = "running" /\ task'[t].pc = "returned")
          => LET k == task[t].lastError.inv
             IN  /\ k < maxRetries
                 /\ task'[t].invocations = k + 1
                 /\ task'[t].waits = k
                 /\ cb'.state = "CLOSED"
                 /\ cb'.failureCount = 0]_vars

\* C5 witness: maxRetries = 3, two timeouts, then success on the third
\* invocation after two waits; the breaker is CLOSED with failureCount 0
C5_Witness ==
    \E t \in Tasks :
        /\ maxRetries = 3
        /\ task[t].kind = "retry"
        /\ task[t].pc = "returned"
        /\ task[t].lastError = OperationError(ErrTimeout, 2)
        /\ task[t].invocations = 3
        /\ task[t].waits = 2
        /\ lastOp.op = "onSuccess"
        /\ cb.state = "CLOSED"
        /\ cb.failureCount = 0

\* C6: inside an executeWithRetry call the attempt index and the number of
\* invocations never exceed maxRetries, and, given that every operation
\* invocation and every backoff wait ends, every call ends (returns or
\* throws): from some point on no call of the run is in progress any more.
C6_BoundedAttemptsAndTermination ==
    /\ [](\A t \in Tasks :
            task[t].kind = "retry" =>
                /\ task[t].attempt <= maxRetries
                /\ task[t].invocations <= maxRetries)
    /\ <>[](\A t \in Tasks : task[t].pc \notin Active)

\* C6 witness: a call that used all its attempts: with maxRetries = 2 the
\* second invocation failed with a retryable error and the call threw
C6_Witness ==
    \E t \in Tasks :
        /\ maxRetries = 2
        /\ task[t].kind = "retry"
        /\ task[t].pc = "thrown"
        /\ task[t].attempt = 2
        /\ task[t].invocations = 2
        /\ isRetryable(classifyError(task[t].thrown.err))
        /\ task[t].thrown.origin = "operation"

\* C7: an onFailure call that is at least the failureThreshold-th in a row
\* (since construction, the last onSuccess or the last reset) leaves the
\* breaker OPEN; and a canExecute() call made while the breaker is OPEN and
\* recoveryTimeout has not elapsed since lastFailureTime returns false and
\* leaves the breaker OPEN (the call that made it throws the circuit-open
\* error without invoking its operation).
C7_OpenAtThresholdAndBlocking ==
    [][/\ (OnFailureStep /\ lastOp'.streak >= failureThreshold) => cb'.state = "OPEN"
       /\ (CanExecuteStep /\ Blocking(cb, now))
            => /\ ~lastOp'.ret
               /\ cb'.state = "OPEN"
               /\ \E t \in Tasks :
                       /\ task[t].pc \notin Active
                       /\ \A u \in Tasks \ {t} : task'[u] = task[u]
                       /\ task'[t].pc = "thrown"
                       /\ task'[t].thrown = CircuitOpenError
                       /\ task'[t].invocations = 0]_vars

\* C7 witness: three failures in a row with failureThreshold = 3 opened the
\* breaker, and a canExecute() made before the timeout returned false
C7_Witness ==
    /\ failureThreshold = 3
    /\ lastOp.streak = 3
    /\ lastOp.op = "canExecute"
    /\ lastOp.pre = "OPEN"
    /\ ~lastOp.ret
    /\ cb.state = "OPEN"
    /\ now - cb.lastFailureTime < recoveryTimeout

\* C8: a canExecute() call made while the breaker is OPEN and
\* now - lastFailureTime >= recoveryTimeout returns true and leaves the
\* breaker HALF_OPEN; an onSuccess() in HALF_OPEN leaves it CLOSED with
\* failureCount 0 and an empty failure window.
C8_RecoveryThroughHalfOpen ==
    [][/\ (/\ CanExecuteStep
           /\ cb.state = "OPEN"
           /\ now - cb.lastFailureTime >= recoveryTimeout)
            => (lastOp'.ret /\ cb'.state = "HALF_OPEN")
       /\ (OnSuccessStep /\ cb.state = "HALF_OPEN")
            => /\ cb'.state = "CLOSED"
               /\ cb'.failureCount = 0
               /\ cb'.failures = <<>>]_vars

\* C8 witness: onSuccess() ran on a HALF_OPEN breaker whose failureCount had
\* reached the threshold, and the breaker is CLOSED, count 0, window empty
C8_Witness ==
    /\ lastOp.op = "onSuccess"
    /\ lastOp.pre = "HALF_OPEN"
    /\ lastOp.preCount >= failureThreshold
    /\ cb.state = "CLOSED"
    /\ cb.failureCount = 0
    /\ cb.failures = <<>>

\* a change of the breaker's state that follows one of the three rules
StateChangeByRule ==
    \/ /\ CanExecuteStep
       /\ cb.state = "OPEN"
       /\ cb'.state = "HALF_OPEN"
       /\ now - cb.lastFailureTime >= recoveryTimeout
    \/ OnSuccessStep /\ cb'.state = "CLOSED"
    \/ OnFailureStep /\ cb'.state = "OPEN" /\ cb'.failureCount >= failureThreshold

----------------------------------------------------------------------------
(* The delay policy: C11 - C13 *)

\* a policy as the specification describes one: every numeric field positive,
\* jitter in [0, 1)
ValidPolicy(c) ==
    /\ c.maxRetries > 0
    /\ c.baseDelay > 0
    /\ c.maxDelay > 0
    /\ c.exponentialBase > 0 /\ c.exponentialBaseDen > 0
    /\ c.jitterDen > 0 /\ 0 <= c.jitterNum /\ c.jitterNum < c.jitterDen

\* a.num / a.den <= b.num / b.den, for positive denominators
LeqFrac(a, b) == a.num * b.den <= b.num * a.den

\* a calculateDelay call has been made on a policy of positive fields
DelayComputed == policy # NoPolicy /\ delayCall.attempt >= 1 /\ ValidPolicy(policy)

\* C11: for every attempt number n >= 1 and every jitter draw, the delay
\* calculateDelay(n) computes is at most maxDelay.
C11_DelayAtMostMaxDelay ==
    DelayComputed => delayCall.delay <= policy.maxDelay

\* D(n) <= D(n+1) for every n, and D stays at maxDelay once it is there
CappedDelayMonotone(c) ==
    \A n \in 1 .. (MaxAttemptNo - 1) :
        /\ LeqFrac(cappedDelay(c, n), cappedDelay(c, n + 1))
        /\ cappedDelay(c, n) = [num |-> c.maxDelay, den |-> 1]
                => cappedDelay(c, n + 1) = [num |-> c.maxDelay, den |-> 1]

\* delay = floor(D + D * jitter * r), as  delay <= D + D*jitter*r < delay + 1
DelayIsFloorOfJittered(c, call) ==
    LET D == cappedDelay(c, call.attempt)
        xNum == D.num * ((c.jitterDen * RandomDen) + (c.jitterNum * call.r))
        xDen == D.den * c.jitterDen * RandomDen
    IN  /\ call.delay * xDen <= xNum
        /\ xNum < (call.delay + 1) * xDen

\* delay < D * (1 + jitter) + 1
DelayBelowUpperBound(c, call) ==
    LET D == cappedDelay(c, call.attempt)
    IN  call.delay * D.den * c.jitterDen
            < (D.num * (c.jitterDen + c.jitterNum)) + (D.den * c.jitterDen)

\* C12 as stated: D(n) = min(baseDelay * exponentialBase^(n-1), maxDelay) is
\* non-decreasing in n and constant once it reaches maxDelay, delay(n) is
\* floor(D(n) + D(n) * jitter * r), and D(n) <= delay(n) < D(n) * (1 + jitter) + 1.
C12_DelayBounds ==
    DelayComputed =>
        LET D == cappedDelay(policy, delayCall.attempt)
        IN  /\ CappedDelayMonotone(policy)
            /\ DelayIsFloorOfJittered(policy, delayCall)
            /\ D.num <= delayCall.delay * D.den
            /\ DelayBelowUpperBound(policy, delayCall)

\* C12, amended: delay(n) is floor(D(n) + D(n) * jitter * r), so that
\* floor(D(n)) <= delay(n) < D(n) * (1 + jitter) + 1; D is non-decreasing and
\* constant once it reaches maxDelay when exponentialBase >= 1.
C12_DelayBoundsFloored ==
    DelayComputed =>
        LET D == cappedDelay(policy, delayCall.attempt)
        IN  /\ policy.exponentialBase >= policy.exponentialBaseDen
                    => CappedDelayMonotone(policy)
            /\ DelayIsFloorOfJittered(policy, delayCall)
            /\ (D.num \div D.den) <= delayCall.delay
            /\ DelayBelowUpperBound(policy, delayCall)

\* a delay computed from a D that is not a whole number and that the jitter
\* has raised past the next whole number
C12_Witness ==
    /\ DelayComputed
    /\ policy.exponentialBase >= policy.exponentialBaseDen
    /\ delayCall.attempt >= 2
    /\ LET D == cappedDelay(policy, delayCall.attempt)
       IN  /\ D.num % D.den # 0
           /\ delayCall.delay > (D.num \div D.den)

\* C13: a constructor handed a non-positive maxRetries, baseDelay, maxDelay
\* or exponentialBase, or a jitter outside [0, 1), rejects it; no policy
\* object holding such a value is ever produced.
C13_NoInvalidPolicy ==
    policy # NoPolicy => ValidPolicy(policy)

----------------------------------------------------------------------------
(* What a failed call throws: C14 *)

----------------------------------------------------------------------------
(* Classification: C15 - C17 *)

\* the categories in the order the specification gives, each with the codes
\* and the message substrings that select it
ClassifierRules ==
    << [kind |-> "NETWORK_ERROR", codes |-> {"NETWORK_ERROR"},
        substrings |-> {"network", "connection"}],
       [kind |-> "TIMEOUT", codes |-> {"TIMEOUT"}, substrings |-> {"timeout"}],
       [kind |-> "RATE_LIMITED", codes |-> {"RATE_LIMITED"},
        substrings |-> {"rate limit", "too many requests"}],
       [kind |-> "SERVER_ERROR", codes |-> {"500", "503"},
        substrings |-> {"server error", "internal error"}],
       [kind |-> "GAS_ESTIMATION_FAILED", codes |-> {},
        substrings |-> {"gas estimation", "cannot estimate gas"}],
       [kind |-> "INSUFFICIENT_FUNDS", codes |-> {},
        substrings |-> {"insufficient funds", "insufficient balance"}],
       [kind |-> "TRANSACTION_REVERTED", codes |-> {},
        substrings |-> {"revert", "execution reverted"}],
       [kind |-> "NONCE_TOO_LOW", codes |-> {}, substrings |-> {"nonce too low", "nonce"}],
       [kind |-> "GAS_PRICE_TOO_LOW", codes |-> {},
        substrings |-> {"gas price too low", "gas price"}],
       [kind |-> "CONTRACT_ERROR", codes |-> {}, substrings |-> {"contract", "call exception"}],
       [kind |-> "VALIDATION_ERROR", codes |-> {}, substrings |-> {"invalid", "validation"}] >>

\* the categories whose code rule, or whose substring rule, the value matches
CodeMatches(v) ==
    {i \in DOMAIN ClassifierRules : v.code \in ClassifierRules[i].codes}
MessageMatches(v) ==
    {i \in DOMAIN ClassifierRules : ClassifierRules[i].substrings \cap v.msg # {}}

\* the smallest member of a non-empty set of numbers
Least(S) == CHOOSE i \in S : \A j \in S : i <= j

\* C15: classifyError is total: for every value it is handed it returns one
\* kind without throwing, and it returns UNKNOWN_ERROR exactly when no code
\* rule and no substring rule matches.
C15_ClassifyTotal ==
    clsOut.done =>
        /\ ~clsOut.raised
        /\ clsOut.errorType \in ErrorTypes
        /\ clsOut.errorType = "UNKNOWN_ERROR"
                <=> (CodeMatches(clsIn) = {} /\ MessageMatches(clsIn) = {})

\* the kinds that have a code of their own
C16_CodeKinds == {"NETWORK_ERROR", "TIMEOUT", "RATE_LIMITED"}

\* C16: an error whose code is the code of a kind is classified as that kind,
\* whatever substrings its message contains.
C16_CodeBeforeMessage ==
    (clsOut.done /\ ~clsOut.raised /\ clsIn.code \in C16_CodeKinds)
        => clsOut.errorType = clsIn.code

\* C17: an error with no matching code whose message matches the substring
\* rules of one or several categories is classified as the first of them in
\* the order network, timeout, rate-limited, server, gas-estimation,
\* insufficient-funds, reverted, nonce-too-low, gas-price-too-low, contract,
\* validation.
C17_FirstMessageMatchWins ==
    (/\ clsOut.done /\ ~clsOut.raised
     /\ CodeMatches(clsIn) = {}
     /\ MessageMatches(clsIn) # {})
        => clsOut.errorType = ClassifierRules[Least(MessageMatches(clsIn))].kind

\* C17 witness: a message matching the nonce and the gas price categories and
\* no earlier one, with a code that no rule knows, was classified
C17_Witness ==
    /\ clsOut.done /\ ~clsOut.raised
    /\ clsIn.code = "CALL_EXCEPTION"
    /\ clsIn.msg = {"nonce", "gas price"}
    /\ clsOut.errorType = "NONCE_TOO_LOW"

----------------------------------------------------------------------------
(* The retry decision: C18 *)

\* the kinds claim C18 lists as retryable
C18_RetryableKinds ==
    {"NETWORK_ERROR", "TIMEOUT", "RATE_LIMITED", "SERVER_ERROR",
     "GAS_ESTIMATION_FAILED", "NONCE_TOO_LOW", "GAS_PRICE_TOO_LOW"}

\* C18: isRetryable is true for exactly the seven kinds listed and false for
\* every other kind, UNKNOWN_ERROR included; and after a failed attempt
\* executeWithRetry goes on to retry (it sleeps, where an attempt is left) if
\* the classified kind of the error is one of the seven, and throws the
\* error at once if it is not.
C18_RetryDecisionIsRetryable ==
    [][/\ \A kind \in ErrorTypes : isRetryable(kind) <=> kind \in C18_RetryableKinds
       /\ \A t \in Tasks :
            (task[t].pc = "handling" /\ task'[t].pc # "handling")
                => LET kind == classifyError(task[t].lastError.err)
                   IN  /\ kind \in ErrorTypes
                       /\ kind \notin C18_RetryableKinds
                            => task'[t].pc = "thrown" /\ task'[t].waits = task[t].waits
                       /\ (kind \in C18_RetryableKinds /\ task[t].attempt < maxRetries)
                            => task'[t].pc = "sleeping"
                       /\ task'[t].pc = "sleeping" => handleError(task[t].lastError.err).isRetryable
      ]_vars

\* C18 witness: a call slept after a nonce error, a kind the handler's list
\* holds and RetryConfig.retryableErrors does not, and made a second attempt
C18_Witness ==
    \E t \in Tasks :
        /\ errs = {[code |-> NoCode, msg |-> {"nonce"}]}
        /\ task[t].kind = "retry"
        /\ task[t].invocations = 2
        /\ task[t].waits = 1

----------------------------------------------------------------------------
(* Gas price estimates: C19, C20 *)

\* C19: whatever the provider's quote and whichever network is configured,
\* a price estimateOptimalGasPrice returns lies within [minGasPrice,
\* maxGasPrice], and the entry it has just pushed holds that same price.
C19_PriceWithinBounds ==
    gasLast.status = "returned" =>
        /\ networkConfig.minGasPrice <= gasLast.gasPrice
        /\ gasLast.gasPrice <= networkConfig.maxGasPrice
        /\ gasHistory # <<>>
        /\ ParseBigInt(gasHistory[Len(gasHistory)].gasPrice) = gasLast.gasPrice

\* C19 witness: a quote that the multiplier took above maxGasPrice came back
\* as maxGasPrice
C19_Witness ==
    /\ gasLast.status = "returned"
    /\ gasLast.gasPrice = networkConfig.maxGasPrice
    /\ gasHistory # <<>>
    /\ ParseBigInt(gasHistory[Len(gasHistory)].baseFee) > networkConfig.maxGasPrice

\* the last n entries of a sequence
LastEntries(h, n) == SubSeq(h, (Len(h) - n) + 1, Len(h))

\* C20: the history never holds more than 100 entries; it is the most recent
\* min(n, 100) of the n entries pushed so far, in the order they were pushed
\* (so what is dropped is the oldest); and a call that fails leaves the
\* history as it was.
C20_HistoryIsRecentWindow ==
    /\ [](/\ Len(gasHistory) <= 100
          /\ gasHistory = LastEntries(gasObserved,
                                      IF Len(gasObserved) < 100 THEN Len(gasObserved) ELSE 100))
    /\ [][/\ gasLast'.failed # gasLast.failed => gasHistory' = gasHistory
          /\ gasLast'.returned # gasLast.returned
                => /\ gasLast'.returned = gasLast.returned + 1
                   /\ Len(gasObserved') = Len(gasObserved) + 1
                   /\ gasHistory'[Len(gasHistory')] = gasObserved'[Len(gasObserved')]
          /\ gasLast' = gasLast => gasHistory' = gasHistory]_vars

\* C20 witness: 102 entries have been pushed, the history holds the last 100
\* of them, and a call has failed
C20_Witness ==
    /\ Len(gasObserved) = 102
    /\ Len(gasHistory) = 100
    /\ gasHistory[1] = gasObserved[3]
    /\ gasLast.failed >= 1

----------------------------------------------------------------------------
(* The transaction monitor: C21 - C23 *)

\* the maps that hold a record of the hash
MapsHolding(txHash) ==
    {m \in {"pending", "completed", "failed"} :
        \/ m = "pending" /\ txHash \in DOMAIN pendingTransactions
        \/ m = "completed" /\ txHash \in DOMAIN completedTransactions
        \/ m = "failed" /\ txHash \in DOMAIN failedTransactions}

\* C21: every hash that has been started is held in exactly one of the
\* pending, completed and failed maps, whatever calls were made since.
C21_ExactlyOneMap ==
    \A txHash \in started : Cardinality(MapsHolding(txHash)) = 1

\* C22: startMonitoring for a hash that already has a record changes
\* neither the record nor metrics.totalTransactions.
C22_DuplicateStartIsNoOp ==
    [][(/\ monitorOp'.op = "startMonitoring"
        /\ monitorOp'.had
        /\ <<pendingTransactions, metrics, monitorOp>>'
                # <<pendingTransactions, metrics, monitorOp>>)
          => /\ pendingTransactions' = pendingTransactions
             /\ metrics'.totalTransactions = metrics.totalTransactions]_vars

\* C23: averageGasPrice is 0 while no success has been recorded and is
\* totalFeesPaid / totalGasUsed otherwise, and it has never been computed by
\* a division by 0.
C23_AverageGuarded ==
    /\ metrics.successfulTransactions = 0 => metrics.averageGasPrice = [num |-> 0, den |-> 1]
    /\ metrics.averageGasPrice.den # 0
    /\ metrics.successfulTransactions > 0
            => metrics.averageGasPrice.num * metrics.totalGasUsed
                    = metrics.totalFeesPaid * metrics.averageGasPrice.den

----------------------------------------------------------------------------
(* A call refused at the gate: C30 *)

\* the locals of a call that was refused at the gate
Refused(kind) ==
    [NewCall(kind) EXCEPT !.gateChecks = 1, !.pc = "thrown", !.thrown = CircuitOpenError]

\* the entry of a call whose canExecute() returned false
RejectedStep == CanExecuteStep /\ ~lastOp'.ret

\* C30: a call refused by the gate throws the circuit-open error with its
\* operation not invoked and no wait made, and the refusal leaves the
\* breaker's state, failureCount, failures and lastFailureTime as they were.
C30_RejectionChangesNothing ==
    /\ [](\A t \in Tasks :
            (task[t].pc = "thrown" /\ task[t].thrown = CircuitOpenError)
                => task[t].invocations = 0 /\ task[t].waits = 0)
    /\ [][RejectedStep =>
            /\ cb' = cb
            /\ \E t \in Tasks :
                    /\ task'[t] \in {Refused("retry"), Refused("breaker")}
                    /\ \A u \in Tasks \ {t} : task'[u] = task[u]]_vars

\* a call was refused while the breaker had failures on record, and the record
\* is as the last failure left it
C30_Witness ==
    /\ lastOp.op = "canExecute"
    /\ ~lastOp.ret
    /\ cb.state = "OPEN"
    /\ cb.failureCount > 0
    /\ cb.lastFailureTime < now
    /\ \E t \in Tasks : task[t] = Refused("retry")

----------------------------------------------------------------------------
(* Failing sinks: C28 *)

\* what the console was given since the present log call began
ConsoleOfCall == SubSeq(consoleErrors, logCall.console + 1, Len(consoleErrors))

\* the catch-block labels of the sinks that failed in the present log call
FailedSinks ==
    (IF logCall.file = "failed" THEN {FileLabel} ELSE {})
        \cup (IF logCall.telegram = "failed" THEN {TelegramLabel} ELSE {})
        \cup (IF logCall.discord = "failed" THEN {DiscordLabel} ELSE {})

\* C28: no failure of the log-file write or of a Telegram or Discord
\* notification makes log() throw, and each failed sink is reported to the
\* console once, under its own label.
C28_SinkFailuresStayLocal ==
    /\ logCall.pc # "thrown"
    /\ {ConsoleOfCall[i] : i \in DOMAIN ConsoleOfCall} = FailedSinks
    /\ Len(ConsoleOfCall) = Cardinality(FailedSinks)

\* a log call returned after all three of its sinks had failed
C28_Witness ==
    /\ logCall.pc = "returned"
    /\ logCall.file = "failed"
    /\ logCall.telegram = "failed"
    /\ logCall.discord = "failed"

----------------------------------------------------------------------------
(* The bundle: C24 - C27, C29 *)

\* C24: in one assembly the i-th transaction signed (counted from 0) carries
\* nonce b + i, b being the pending count read once at the start of the
\* assembly, so a finished list of 8 uses exactly the nonces b .. b + 7.
C24_NoncesContiguous ==
    /\ Len(bundle.transactions) <= BundleSteps
    /\ \A i \in DOMAIN bundle.transactions :
            bundle.transactions[i].nonce = bundle.nonceBase + (i - 1)
    /\ bundle.pc \in {"simulateBundle", "submitBundle", "resolved", "rejected"}
            => {bundle.transactions[i].nonce : i \in DOMAIN bundle.transactions}
                    = bundle.nonceBase .. (bundle.nonceBase + BundleSteps - 1)

\* all eight transactions are signed, from a pending count that is not 0
C24_Witness ==
    /\ bundle.pc = "simulateBundle"
    /\ Len(bundle.transactions) = BundleSteps
    /\ bundle.nonceBase > 0

BundleSettled ==
    \/ bundle.outcome = "ReferenceError"
    \/ task[Bot].pc \in {"returned", "thrown"}

\* C27: an executeBundle call in which no provider, signing or relay call
\* failed does not end without having simulated once and submitted once, the
\* same 8 transactions for the block 5 past the height read, and having
\* returned the result.
C27_CleanCallSubmits ==
    (BundleSettled /\ bundle.failures = 0)
        => /\ task[Bot].pc = "returned"
           /\ bundle.simulations = 1
           /\ bundle.submissions = 1
           /\ Len(bundle.transactions) = BundleSteps
           /\ bundle.simulated[1].payload = bundle.submitted[1].payload
           /\ bundle.futureBlockNumber \in {h + BlocksAhead : h \in BlockHeights}

\* C29: an operation the executor has invoked has a start recorded by the
\* monitor, and once the call has returned the monitor counts one success
\* and no failure.
C29_ExecutorObserved ==
    \A t \in Tasks :
        /\ task[t].invocations > 0 => started # {}
        /\ task[t].pc = "returned"
                => /\ metrics.successfulTransactions = 1
                   /\ metrics.failedTransactions = 0

----------------------------------------------------------------------------
(* The shared breaker under interleaved calls: C33 - C37 *)

\* the breaker's last method call was a canExecute() that let a call through
\* while the breaker was not CLOSED, and the operation it let through has
\* not settled: nothing has told the breaker of a success or a failure since
TrialInFlight ==
    /\ lastOp.op = "canExecute"
    /\ lastOp.ret
    /\ lastOp.pre # "CLOSED"
    /\ cb.state = "HALF_OPEN"
    /\ \E u \in Tasks : task[u].pc = "running"

\* C33: while the operation of a trial call is in flight in HALF_OPEN, no
\* other operation is started.
C33_OneTrialInHalfOpen ==
    [][\A t \in Tasks : ~(TrialInFlight /\ InvokeStep(t))]_vars

\* C34: no step of an execute call takes the breaker from OPEN to CLOSED.
C34_NoOpenToClosed ==
    [][(cb.state = "OPEN" /\ ~ResetStep) => cb'.state # "CLOSED"]_vars

\* C35: the breaker is CLOSED exactly when failureCount is below
\* failureThreshold, and failures never has more entries than failureCount.
C35_ClosedIffBelowThreshold ==
    /\ failureThreshold >= 1
    /\ cb.state = "CLOSED" <=> cb.failureCount < failureThreshold
    /\ Len(cb.failures) <= cb.failureCount

\* the breaker is HALF_OPEN, with old failures pruned from its window
C35_Witness ==
    /\ cb.state = "HALF_OPEN"
    /\ cb.failureCount >= failureThreshold
    /\ Len(cb.failures) < cb.failureCount

\* C36: a HALF_OPEN breaker has failureCount at or above failureThreshold,
\* and one onFailure() in HALF_OPEN leaves it OPEN.
C36_FailedTrialReopens ==
    /\ [](cb.state = "HALF_OPEN" => cb.failureCount >= failureThreshold)
    /\ [][(OnFailureStep /\ cb.state = "HALF_OPEN")
              => /\ cb'.state = "OPEN"
                 /\ cb'.failureCount = cb.failureCount + 1]_vars

\* onFailure() found the breaker HALF_OPEN, with a threshold above 1
C36_Witness ==
    /\ lastOp.op = "onFailure"
    /\ lastOp.pre = "HALF_OPEN"
    /\ failureThreshold > 1
    /\ cb.state = "OPEN"

\* C37: every onFailure() sets lastFailureTime to the time of the call and
\* nothing else changes it, and canExecute() lets an OPEN breaker go
\* HALF_OPEN only when recoveryTimeout has passed since lastFailureTime.
C37_LastFailureTimeIsLatest ==
    [][/\ OnFailureStep => cb'.lastFailureTime = now
       /\ cb'.lastFailureTime # cb.lastFailureTime => OnFailureStep
       /\ (CanExecuteStep /\ cb.state = "OPEN" /\ cb'.state = "HALF_OPEN")
              => now - cb.lastFailureTime >= recoveryTimeout]_vars

\* a failure reported while the breaker was already OPEN has moved
\* lastFailureTime, past an earlier failure that has left the window
C37_Witness ==
    /\ lastOp.op = "onFailure"
    /\ lastOp.pre = "OPEN"
    /\ cb.state = "OPEN"
    /\ cb.lastFailureTime = now
    /\ Len(cb.failures) < cb.failureCount

----------------------------------------------------------------------------
(* The configured list of retryable kinds: C39 *)

\* C39: after a failed attempt the executor sleeps for a retry, where an
\* attempt is left, exactly when ErrorHandler.isRetryable holds of the
\* classified kind, whether retryConfig.retryableErrors holds the kind or not.
C39_ConfiguredListIgnored ==
    [][\A t \in Tasks :
            (task[t].pc = "handling" /\ task'[t].pc # "handling")
                => LET kind == classifyError(task[t].lastError.err)
                   IN  /\ (kind \in retryableTypes /\ task[t].attempt < maxRetries)
                            => task'[t].pc = "sleeping"
                       /\ kind \notin retryableTypes => task'[t].pc = "thrown"
      ]_vars

\* a second attempt was made after a nonce error, a kind the default
\* configured list does not hold
C39_Witness ==
    \E t \in Tasks :
        /\ retryableErrors = DefaultRetryableErrors
        /\ task[t].invocations = 2
        /\ task[t].waits = 1
        /\ classifyError(task[t].lastError.err) = "NONCE_TOO_LOW"

----------------------------------------------------------------------------
(* The level filter: C40 *)

\* C40: with a configured level that is one of the five, a message is
\* emitted exactly when its level is at most the configured one in the order
\* error < warn < info < debug < trace.
C40_EmittedIffSevereEnough ==
    (logConfig.logLevel \in LevelNames /\ logCall.n > 0)
        => (logCall.emitted <=> logLevels[logCall.level] <= logLevels[logConfig.logLevel])

----------------------------------------------------------------------------
(* The report's windows: C32 *)

\* the records of a window, as a set
Shown(window) == {window[i] : i \in DOMAIN window}

\* no record of the map was left out of the window for a record that was
\* stored earlier
MostRecent(window, m) ==
    \A k \in DOMAIN m :
        m[k] \notin Shown(window)
            => \A shown \in Shown(window) : shown.finishNo > m[k].finishNo

\* C32: the report holds at most 10 completed and at most 5 failed records,
\* and they are the ones finished last.
C32_ReportShowsMostRecent ==
    report.made
        => /\ Len(report.recentTransactions) <= recentTransactionsSize
           /\ Len(report.recentFailures) <= recentFailuresSize
           /\ MostRecent(report.recentTransactions, completedTransactions)
           /\ MostRecent(report.recentFailures, failedTransactions)

----------------------------------------------------------------------------
(* The monitor's counters: C38 *)

\* C38: successfulTransactions and failedTransactions are the sizes of the
\* completed and failed maps, and totalTransactions is the number of records
\* in the three maps.
C38_CountersAgreeWithMaps ==
    /\ metrics.successfulTransactions = Cardinality(DOMAIN completedTransactions)
    /\ metrics.failedTransactions = Cardinality(DOMAIN failedTransactions)
    /\ metrics.totalTransactions =
            Cardinality(DOMAIN pendingTransactions)
                + Cardinality(DOMAIN completedTransactions)
                + Cardinality(DOMAIN failedTransactions)

----------------------------------------------------------------------------
(* The order of the bundle's steps: C31 *)

\* the order claim C31 gives
C31_Order ==
    <<"deploy", "approveWbnbToNfpm", "approveTokenToNfpm", "createPool", "addLiquidity",
      "approveWbnbToRouter", "swap", "transferFee">>

\* the steps of a list of signed transactions
StepsOf(transactions) == [i \in DOMAIN transactions |-> transactions[i].step]

====
